---- MODULE Spec2Model ----
(***************************************************************************)
(* Model of the tg-assistant-infra CDK application: the orchestrator       *)
(* (bin/tg-assistant-infra.ts), the messaging builder (SQSStack) and the   *)
(* gateway builder (ApiGatewayStack).  A run constructs a resource graph   *)
(* statement by statement; every `new X(this, id, props)` of the source is *)
(* one step that appends one resource to the graph.                        *)
(*                                                                         *)
(* Three entry points are modelled: "bin" (the orchestrator script),       *)
(* "sqs" and "api" (a caller constructing one builder directly with        *)
(* arbitrary props, as the test suite does).                               *)
(***************************************************************************)
EXTENDS Integers, Sequences, FiniteSets, TLC

VARIABLES
    entry,      \* which entry point runs: "bin", "sqs" or "api"
    pc,         \* position of the run in the source
    context,    \* CDK context and process environment read by the orchestrator
    envCfg,     \* the orchestrator's resolved environment configuration
    sqsArgs,    \* (id, props) the SQSStack constructor is called with
    apiArgs,    \* (id, props) the ApiGatewayStack constructor is called with
    stacks,     \* stacks of the app, in construction order
    resources,  \* resources of the app, in construction order
    customDomain, \* the gateway stack's `customDomain` field
    error,      \* the Error thrown, if any
    run,        \* number of the current run of the entry point
    previous    \* outcome of the run before the current one, if any

vars ==
    <<entry, pc, context, envCfg, sqsArgs, apiArgs, stacks, resources,
      customDomain, error, run, previous>>

(***************************************************************************)
(* Optional values (`T | undefined`) and the operators applied to them.    *)
(***************************************************************************)
None == << >>
Some(v) == <<v>>

\* a ?? d
Coalesce(x, d) == IF x = None THEN d ELSE x[1]

\* obj?.field
Chain(obj, field) == IF obj = None THEN None ELSE obj[1][field]

\* truthiness of a `string | undefined`
Truthy(x) == x # None /\ x[1] # ""

\* a spread `...(cond ? { k: v } : {})` of one optional property
SpreadIf(cond, v) == IF cond THEN Some(v) ELSE None

(***************************************************************************)
(* Duration (aws-cdk-lib): an amount with a unit; toSeconds converts.      *)
(* Duration.seconds/minutes/days throw on a negative amount.               *)
(***************************************************************************)
DurationSeconds(n) == [amount |-> n, unit |-> "seconds"]
DurationMinutes(n) == [amount |-> n, unit |-> "minutes"]
DurationDays(n) == [amount |-> n, unit |-> "days"]

toSeconds(d) ==
    CASE d.unit = "seconds" -> d.amount
      [] d.unit = "minutes" -> d.amount * 60
      [] d.unit = "days" -> d.amount * 86400

DurationThrows(n) == n < 0

(***************************************************************************)
(* Bounds and input domains.                                               *)
(***************************************************************************)
MaxOverride == 1

OverrideValues == (-1) .. MaxOverride
OptNumber == {None} \cup {Some(n) : n \in OverrideValues}
OptBool == {None, Some(TRUE), Some(FALSE)}

QueueConfigs ==
    [visibilityTimeoutSeconds : OptNumber, maxReceiveCount : OptNumber]
OptQueueConfig == {None} \cup {Some(c) : c \in QueueConfigs}

EnvNames == {"dev", "prod"}
ProjectNames == {"tg-assistant"}
Accounts == {"111111111111", "222222222222"}

\* enableCostOptimization and watchTowerTopicArn are varied under SpecFrame
SQSStackProps ==
    [environment : EnvNames,
     projectName : ProjectNames,
     account : {"111111111111"},
     enableEncryption : OptBool,
     enableCostOptimization : {None},
     watchTowerTopicArn : {None},
     orderQueueConfig : OptQueueConfig,
     resultQueueConfig : OptQueueConfig]

(***************************************************************************)
(* The graph.                                                              *)
(***************************************************************************)
Emit(r) == resources' = Append(resources, r)

\* indices of the resources of one stack and type
ResIdx(stack, type) ==
    {i \in DOMAIN resources :
        resources[i].stack = stack /\ resources[i].type = type}

\* index of the resource with construct id `id` in `stack` (0 when absent)
Find(stack, id) ==
    LET s == {i \in DOMAIN resources :
                resources[i].stack = stack /\ resources[i].id = id}
    IN IF s = {} THEN 0 ELSE CHOOSE i \in s : TRUE

\* CloudFormation attribute tokens of a construct
queueArn(id) == id \o ".Arn"
queueUrl(id) == id \o ".Ref"
keyArn(id) == id \o ".Arn"
roleArn(id) == id \o ".Arn"
topicArn(id) == id \o ".Ref"

\* throw new Error(...): the run ends; `e` holds the message and its values
Throw(e) ==
    /\ error' = Some(e)
    /\ pc' = "error"

(***************************************************************************)
(* SQSStack constructor (lib/sqs-stack.ts).                                *)
(***************************************************************************)
SqsId == sqsArgs[1].id
SqsProps == sqsArgs[1].props

\* faulty variant: encryption off unless requested
enableEncryptionDefaultOff == Coalesce(SqsProps.enableEncryption, FALSE)

\* const { enableEncryption = true } = props
enableEncryption == Coalesce(SqsProps.enableEncryption, TRUE)

\* faulty variant: environment before project
stackNameSqsSwapped == SqsProps.environment \o "-" \o SqsProps.projectName

\* const stackName = `${projectName}-${environment}`
stackNameSqs == SqsProps.projectName \o "-" \o SqsProps.environment

\* Queue (aws-cdk-lib) validates its props when constructed
QueueThrows(maxReceiveCount, visibilitySeconds) ==
    \/ maxReceiveCount < 1
    \/ visibilitySeconds < 0
    \/ visibilitySeconds > 43200

SqsSuper ==
    /\ pc = "sqs_super"
    /\ stacks' = Append(stacks,
          [id |-> SqsId, kind |-> "SQSStack", account |-> SqsProps.account,
           dependencies |-> {}, tags |-> {}])
    /\ pc' = "sqs_key"
    /\ UNCHANGED <<run, previous, entry, context, envCfg, sqsArgs, apiArgs, resources, customDomain, error>>

\* faulty variant: rotation follows the encryption flag
KeyRotationFollowsFlag ==
    [stack |-> SqsId, id |-> "QueueEncryptionKey", type |-> "AWS::KMS::Key",
     description |-> stackNameSqs \o " SQS encryption key",
     enableKeyRotation |-> Coalesce(SqsProps.enableEncryption, TRUE)]

QueueEncryptionKeyResource ==
    [stack |-> SqsId, id |-> "QueueEncryptionKey", type |-> "AWS::KMS::Key",
     description |-> stackNameSqs \o " SQS encryption key",
     enableKeyRotation |-> TRUE]

\* faulty variant: the primary queues are built before the dead-letter queues
SqsKeyThenPrimaryQueues ==
    /\ pc = "sqs_key"
    /\ Emit(QueueEncryptionKeyResource)
    /\ pc' = "sqs_orderQueue"
    /\ UNCHANGED <<run, previous, entry, context, envCfg, sqsArgs, apiArgs,
                   stacks, customDomain, error>>

SqsKey ==
    /\ pc = "sqs_key"
    /\ Emit(QueueEncryptionKeyResource)
    /\ pc' = "sqs_orderDLQ"
    /\ UNCHANGED <<run, previous, entry, context, envCfg, sqsArgs, apiArgs, stacks, customDomain, error>>

QueueKeyRef == SpreadIf(enableEncryption, "QueueEncryptionKey")

OrderDLQResource ==
    [stack |-> SqsId, id |-> "OrderDLQ", type |-> "AWS::SQS::Queue",
     queueName |-> stackNameSqs \o "-order-dlq",
     retentionPeriod |-> DurationDays(7),
     visibilityTimeout |-> None,
     receiveMessageWaitTime |-> None,
     deadLetterQueue |-> None,
     encryptionMasterKey |-> QueueKeyRef]

SqsOrderDLQ ==
    /\ pc = "sqs_orderDLQ"
    /\ Emit(OrderDLQResource)
    /\ pc' = "sqs_resultDLQ"
    /\ UNCHANGED <<run, previous, entry, context, envCfg, sqsArgs, apiArgs, stacks, customDomain, error>>

ResultDLQResource ==
    [stack |-> SqsId, id |-> "ResultDLQ", type |-> "AWS::SQS::Queue",
     queueName |-> stackNameSqs \o "-result-dlq",
     retentionPeriod |-> DurationDays(7),
     visibilityTimeout |-> None,
     receiveMessageWaitTime |-> None,
     deadLetterQueue |-> None,
     encryptionMasterKey |-> QueueKeyRef]

SqsResultDLQ ==
    /\ pc = "sqs_resultDLQ"
    /\ Emit(ResultDLQResource)
    /\ pc' = "sqs_orderQueue"
    /\ UNCHANGED <<run, previous, entry, context, envCfg, sqsArgs, apiArgs, stacks, customDomain, error>>

orderVisibilitySeconds ==
    Coalesce(Chain(SqsProps.orderQueueConfig, "visibilityTimeoutSeconds"), 300)
\* faulty variant: the intake count read from the result queue's config
orderMaxReceiveFromResult ==
    Coalesce(Chain(SqsProps.resultQueueConfig, "maxReceiveCount"), 3)

orderMaxReceive ==
    Coalesce(Chain(SqsProps.orderQueueConfig, "maxReceiveCount"), 3)

OrderQueueResource ==
    [stack |-> SqsId, id |-> "OrderQueue", type |-> "AWS::SQS::Queue",
     queueName |-> stackNameSqs \o "-order",
     retentionPeriod |-> DurationDays(14),
     visibilityTimeout |-> Some(DurationSeconds(orderVisibilitySeconds)),
     receiveMessageWaitTime |-> Some(DurationSeconds(6)),
     deadLetterQueue |->
        Some([queue |-> "OrderDLQ", maxReceiveCount |-> orderMaxReceive]),
     encryptionMasterKey |-> QueueKeyRef]

SqsOrderQueue ==
    /\ pc = "sqs_orderQueue"
    /\ IF DurationThrows(orderVisibilitySeconds)
       THEN /\ Throw([message |-> "Duration amounts cannot be negative"])
            /\ UNCHANGED resources
       ELSE IF QueueThrows(orderMaxReceive, orderVisibilitySeconds)
       THEN /\ Throw([message |-> "queue property out of range"])
            /\ UNCHANGED resources
       ELSE /\ Emit(OrderQueueResource)
            /\ pc' = "sqs_resultQueue"
            /\ UNCHANGED error
    /\ UNCHANGED <<run, previous, entry, context, envCfg, sqsArgs, apiArgs, stacks, customDomain>>

\* faulty variant: the result queue's default visibility is the intake's
resultVisibilitySecondsIntakeDefault ==
    Coalesce(Chain(SqsProps.resultQueueConfig, "visibilityTimeoutSeconds"), 300)

resultVisibilitySeconds ==
    Coalesce(Chain(SqsProps.resultQueueConfig, "visibilityTimeoutSeconds"), 180)
resultMaxReceive ==
    Coalesce(Chain(SqsProps.resultQueueConfig, "maxReceiveCount"), 3)

\* faulty variant: the result queue redrives to the intake dead-letter queue
ResultQueueCrossedDLQ ==
    [stack |-> SqsId, id |-> "ResultQueue", type |-> "AWS::SQS::Queue",
     queueName |-> stackNameSqs \o "-result",
     retentionPeriod |-> DurationDays(7),
     visibilityTimeout |-> Some(DurationSeconds(resultVisibilitySeconds)),
     receiveMessageWaitTime |-> Some(DurationSeconds(6)),
     deadLetterQueue |->
        Some([queue |-> "OrderDLQ", maxReceiveCount |-> resultMaxReceive]),
     encryptionMasterKey |-> QueueKeyRef]

ResultQueueResource ==
    [stack |-> SqsId, id |-> "ResultQueue", type |-> "AWS::SQS::Queue",
     queueName |-> stackNameSqs \o "-result",
     retentionPeriod |-> DurationDays(7),
     visibilityTimeout |-> Some(DurationSeconds(resultVisibilitySeconds)),
     receiveMessageWaitTime |-> Some(DurationSeconds(6)),
     deadLetterQueue |->
        Some([queue |-> "ResultDLQ", maxReceiveCount |-> resultMaxReceive]),
     encryptionMasterKey |-> QueueKeyRef]

SqsResultQueue ==
    /\ pc = "sqs_resultQueue"
    /\ IF DurationThrows(resultVisibilitySeconds)
       THEN /\ Throw([message |-> "Duration amounts cannot be negative"])
            /\ UNCHANGED resources
       ELSE IF QueueThrows(resultMaxReceive, resultVisibilitySeconds)
       THEN /\ Throw([message |-> "queue property out of range"])
            /\ UNCHANGED resources
       ELSE /\ Emit(ResultQueueResource)
            /\ pc' = "sqs_webhookRole"
            /\ UNCHANGED error
    /\ UNCHANGED <<run, previous, entry, context, envCfg, sqsArgs, apiArgs, stacks, customDomain>>

(***************************************************************************)
(* IAM roles.                                                              *)
(***************************************************************************)
Statement(actions, res, conditions) ==
    [effect |-> "ALLOW", actions |-> actions, resources |-> res,
     conditions |-> conditions]

KeyStatement ==
    Statement({"kms:Decrypt", "kms:GenerateDataKey"},
              {keyArn("QueueEncryptionKey")}, None)

Role(id, purpose, policyName, statements) ==
    [stack |-> SqsId, id |-> id, type |-> "AWS::IAM::Role",
     roleName |-> stackNameSqs \o "-" \o purpose,
     assumedBy |-> "lambda.amazonaws.com",
     managedPolicies |-> <<"service-role/AWSLambdaBasicExecutionRole">>,
     inlinePolicies |-> <<[name |-> policyName, statements |-> statements]>>]

\* faulty variant: the producer may also receive from the intake queue
WebhookStatementsWithReceive ==
    << Statement({"sqs:SendMessage", "sqs:ReceiveMessage",
                  "sqs:GetQueueAttributes", "sqs:GetQueueUrl"},
                 {queueArn("OrderQueue")},
                 Some([operator |-> "StringEquals",
                       key |-> "aws:SourceAccount",
                       value |-> SqsProps.account])),
       KeyStatement >>

WebhookStatements ==
    << Statement({"sqs:SendMessage", "sqs:GetQueueAttributes", "sqs:GetQueueUrl"},
                 {queueArn("OrderQueue")},
                 Some([operator |-> "StringEquals",
                       key |-> "aws:SourceAccount",
                       value |-> SqsProps.account])),
       KeyStatement >>

\* faulty variant: the worker's send statement is not scoped to a queue
WorkerStatementsWildcard ==
    << Statement({"sqs:ReceiveMessage", "sqs:DeleteMessage",
                  "sqs:ChangeMessageVisibility", "sqs:GetQueueAttributes"},
                 {queueArn("OrderQueue")}, None),
       Statement({"sqs:SendMessage", "sqs:GetQueueAttributes"}, {"*"}, None),
       KeyStatement >>

WorkerStatements ==
    << Statement({"sqs:ReceiveMessage", "sqs:DeleteMessage",
                  "sqs:ChangeMessageVisibility", "sqs:GetQueueAttributes"},
                 {queueArn("OrderQueue")}, None),
       Statement({"sqs:SendMessage", "sqs:GetQueueAttributes"},
                 {queueArn("ResultQueue")}, None),
       KeyStatement >>

FeedbackStatements ==
    << Statement({"sqs:ReceiveMessage", "sqs:DeleteMessage",
                  "sqs:ChangeMessageVisibility", "sqs:GetQueueAttributes"},
                 {queueArn("ResultQueue")}, None),
       Statement({"sqs:SendMessage", "sqs:GetQueueAttributes"},
                 {queueArn("OrderQueue")}, None),
       KeyStatement >>

SqsWebhookRole ==
    /\ pc = "sqs_webhookRole"
    /\ Emit(Role("WebhookLambdaRole", "webhook-role", "OrderQueueProducer",
                 WebhookStatements))
    /\ pc' = "sqs_workerRole"
    /\ UNCHANGED <<run, previous, entry, context, envCfg, sqsArgs, apiArgs, stacks, customDomain, error>>

SqsWorkerRole ==
    /\ pc = "sqs_workerRole"
    /\ Emit(Role("WorkerLambdaRole", "worker-role", "DualQueueWorkerAccess",
                 WorkerStatements))
    /\ pc' = "sqs_feedbackRole"
    /\ UNCHANGED <<run, previous, entry, context, envCfg, sqsArgs, apiArgs, stacks, customDomain, error>>

SqsFeedbackRole ==
    /\ pc = "sqs_feedbackRole"
    /\ Emit(Role("FeedbackLambdaRole", "feedback-role", "FeedbackDualQueueAccess",
                 FeedbackStatements))
    /\ pc' = "sqs_orderAgeAlarm"
    /\ UNCHANGED <<run, previous, entry, context, envCfg, sqsArgs, apiArgs, stacks, customDomain, error>>

(***************************************************************************)
(* Monitoring: alarms, the alert topic and the alarm actions.              *)
(***************************************************************************)
Alarm(stack, id, name, description, metric, threshold, periods, missing) ==
    [stack |-> stack, id |-> id, type |-> "AWS::CloudWatch::Alarm",
     alarmName |-> name, alarmDescription |-> description,
     metric |-> metric, threshold |-> threshold,
     evaluationPeriods |-> periods, treatMissingData |-> missing,
     alarmActions |-> << >>, okActions |-> << >>]

Metric(of, name, period, statistic) ==
    [of |-> of, metricName |-> name, period |-> period, statistic |-> statistic]

\* an alarm without treatMissingData gets CloudWatch's default, `missing`
EffectiveMissingData(alarm) ==
    IF alarm.treatMissingData = None THEN "MISSING"
    ELSE alarm.treatMissingData[1]

\* faulty variant: the intake age alarm takes the result queue's threshold
OrderQueueAgeAlarmResultThreshold ==
    Alarm(SqsId, "OrderQueueAgeAlarm", stackNameSqs \o "-order-message-age",
          "Order messages aging in queue",
          Metric("OrderQueue", "ApproximateAgeOfOldestMessage",
                 Some(DurationMinutes(5)), None),
          600, 2, None)

OrderQueueAgeAlarm ==
    Alarm(SqsId, "OrderQueueAgeAlarm", stackNameSqs \o "-order-message-age",
          "Order messages aging in queue",
          Metric("OrderQueue", "ApproximateAgeOfOldestMessage",
                 Some(DurationMinutes(5)), None),
          900, 2, None)

ResultQueueAgeAlarm ==
    Alarm(SqsId, "ResultQueueAgeAlarm", stackNameSqs \o "-result-message-age",
          "Result messages aging in queue",
          Metric("ResultQueue", "ApproximateAgeOfOldestMessage",
                 Some(DurationMinutes(3)), None),
          600, 2, None)

OrderDLQAlarm ==
    Alarm(SqsId, "OrderDLQAlarm", stackNameSqs \o "-order-dlq-messages",
          "Failed orders in Dead Letter Queue",
          Metric("OrderDLQ", "ApproximateNumberOfMessagesVisible", None, None),
          1, 1, Some("NOT_BREACHING"))

ResultDLQAlarm ==
    Alarm(SqsId, "ResultDLQAlarm", stackNameSqs \o "-result-dlq-messages",
          "Failed results in Dead Letter Queue",
          Metric("ResultDLQ", "ApproximateNumberOfMessagesVisible", None, None),
          1, 1, None)

SqsOrderAgeAlarm ==
    /\ pc = "sqs_orderAgeAlarm"
    /\ Emit(OrderQueueAgeAlarm)
    /\ pc' = "sqs_resultAgeAlarm"
    /\ UNCHANGED <<run, previous, entry, context, envCfg, sqsArgs, apiArgs, stacks, customDomain, error>>

SqsResultAgeAlarm ==
    /\ pc = "sqs_resultAgeAlarm"
    /\ Emit(ResultQueueAgeAlarm)
    /\ pc' = "sqs_orderDLQAlarm"
    /\ UNCHANGED <<run, previous, entry, context, envCfg, sqsArgs, apiArgs, stacks, customDomain, error>>

SqsOrderDLQAlarm ==
    /\ pc = "sqs_orderDLQAlarm"
    /\ Emit(OrderDLQAlarm)
    /\ pc' = "sqs_resultDLQAlarm"
    /\ UNCHANGED <<run, previous, entry, context, envCfg, sqsArgs, apiArgs, stacks, customDomain, error>>

\* faulty variant: the result DLQ gets no alarm
SqsResultDLQAlarmMissing ==
    /\ pc = "sqs_resultDLQAlarm"
    /\ pc' = "sqs_topic"
    /\ UNCHANGED <<run, previous, entry, context, envCfg, sqsArgs, apiArgs, stacks, resources,
                   customDomain, error>>

SqsResultDLQAlarm ==
    /\ pc = "sqs_resultDLQAlarm"
    /\ Emit(ResultDLQAlarm)
    /\ pc' = "sqs_topic"
    /\ UNCHANGED <<run, previous, entry, context, envCfg, sqsArgs, apiArgs, stacks, customDomain, error>>

\* faulty variant: the topic is encrypted only when the queues are
QueueAlertTopicKeyFollowsFlag ==
    [stack |-> SqsId, id |-> "QueueAlertTopic", type |-> "AWS::SNS::Topic",
     topicName |-> stackNameSqs \o "-queue-alerts",
     displayName |-> "SQS Alerts for Watch Tower",
     masterKey |-> QueueKeyRef]

QueueAlertTopic ==
    [stack |-> SqsId, id |-> "QueueAlertTopic", type |-> "AWS::SNS::Topic",
     topicName |-> stackNameSqs \o "-queue-alerts",
     displayName |-> "SQS Alerts for Watch Tower",
     masterKey |-> Some("QueueEncryptionKey")]

SqsTopic ==
    /\ pc = "sqs_topic"
    /\ Emit(QueueAlertTopic)
    /\ pc' = "sqs_wire"
    /\ UNCHANGED <<run, previous, entry, context, envCfg, sqsArgs, apiArgs, stacks, customDomain, error>>

\* faulty variant: the recovery action is not added
WireAlarmsNoOkAction(stack, alarmIds, topic) ==
    [i \in DOMAIN resources |->
        IF resources[i].stack = stack /\ resources[i].id \in alarmIds
        THEN [resources[i] EXCEPT !.alarmActions = Append(@, topic)]
        ELSE resources[i]]

\* alarms.forEach(alarm => { addAlarmAction(SnsAction(topic)); addOkAction(...) })
WireAlarms(stack, alarmIds, topic) ==
    [i \in DOMAIN resources |->
        IF resources[i].stack = stack /\ resources[i].id \in alarmIds
        THEN [resources[i] EXCEPT
                !.alarmActions = Append(@, topic),
                !.okActions = Append(@, topic)]
        ELSE resources[i]]

SqsWire ==
    /\ pc = "sqs_wire"
    /\ resources' = WireAlarms(SqsId,
            {"OrderQueueAgeAlarm", "ResultQueueAgeAlarm",
             "OrderDLQAlarm", "ResultDLQAlarm"},
            "QueueAlertTopic")
    /\ pc' = "sqs_params"
    /\ UNCHANGED <<run, previous, entry, context, envCfg, sqsArgs, apiArgs, stacks, customDomain, error>>

(***************************************************************************)
(* SSM exports.                                                            *)
(***************************************************************************)
Parameter(stack, id, name, value) ==
    [stack |-> stack, id |-> id, type |-> "AWS::SSM::Parameter",
     parameterName |-> name, stringValue |-> value]

\* faulty variant: the snapshot shows the defaults
QueueConfigurationJsonDefaults ==
    "{\"orderQueue\":{\"visibilityTimeout\":"
        \o ToString(toSeconds(DurationSeconds(300)))
        \o ",\"maxReceiveCount\":" \o ToString(3)
        \o "},\"resultQueue\":{\"visibilityTimeout\":"
        \o ToString(toSeconds(DurationSeconds(180)))
        \o ",\"maxReceiveCount\":" \o ToString(3) \o "}}"

\* JSON.stringify of the queue configuration snapshot
QueueConfigurationJson ==
    "{\"orderQueue\":{\"visibilityTimeout\":"
        \o ToString(toSeconds(DurationSeconds(orderVisibilitySeconds)))
        \o ",\"maxReceiveCount\":" \o ToString(orderMaxReceive)
        \o "},\"resultQueue\":{\"visibilityTimeout\":"
        \o ToString(toSeconds(DurationSeconds(resultVisibilitySeconds)))
        \o ",\"maxReceiveCount\":" \o ToString(resultMaxReceive) \o "}}"

\* faulty variant: the result queue's ARN is published at the intake
\* queue's path
SqsParametersDuplicatePath ==
    LET prefix == "/automation/" \o SqsProps.environment \o "/"
        P(id, path, value) == Parameter(SqsId, id, prefix \o path, value)
    IN << P("OrderQueueUrl", "queues/order/url", queueUrl("OrderQueue")),
          P("OrderQueueArn", "queues/order/arn", queueArn("OrderQueue")),
          P("ResultQueueUrl", "queues/result/url", queueUrl("ResultQueue")),
          P("ResultQueueArn", "queues/order/arn", queueArn("ResultQueue")),
          P("QueueConfiguration", "queues/config", QueueConfigurationJson),
          P("WebhookRoleArn", "roles/webhook/arn", roleArn("WebhookLambdaRole")),
          P("WorkerRoleArn", "roles/worker/arn", roleArn("WorkerLambdaRole")),
          P("FeedbackRoleArn", "roles/feedback/arn",
            roleArn("FeedbackLambdaRole")),
          P("QueueAlertTopicArn", "monitoring/queue-alerts/topic-arn",
            topicArn("QueueAlertTopic")) >>

SqsParameters ==
    LET prefix == "/automation/" \o SqsProps.environment \o "/"
        P(id, path, value) == Parameter(SqsId, id, prefix \o path, value)
    IN << P("OrderQueueUrl", "queues/order/url", queueUrl("OrderQueue")),
          P("OrderQueueArn", "queues/order/arn", queueArn("OrderQueue")),
          P("ResultQueueUrl", "queues/result/url", queueUrl("ResultQueue")),
          P("ResultQueueArn", "queues/result/arn", queueArn("ResultQueue")),
          P("QueueConfiguration", "queues/config", QueueConfigurationJson),
          P("WebhookRoleArn", "roles/webhook/arn", roleArn("WebhookLambdaRole")),
          P("WorkerRoleArn", "roles/worker/arn", roleArn("WorkerLambdaRole")),
          P("FeedbackRoleArn", "roles/feedback/arn",
            roleArn("FeedbackLambdaRole")),
          P("QueueAlertTopicArn", "monitoring/queue-alerts/topic-arn",
            topicArn("QueueAlertTopic")) >>

\* one `new StringParameter` per step, in source order; the constructor
\* returns after the last one
SqsParams ==
    /\ pc = "sqs_params"
    /\ LET n == Cardinality(ResIdx(SqsId, "AWS::SSM::Parameter"))
       IN /\ Emit(SqsParameters[n + 1])
          /\ pc' = IF n + 1 < Len(SqsParameters) THEN "sqs_params"
                   ELSE IF entry = "bin" THEN "bin_sqs_tags"
                   ELSE "done"
    /\ UNCHANGED <<run, previous, entry, context, envCfg, sqsArgs, apiArgs, stacks, customDomain, error>>

SqsConstructor ==
    \/ SqsSuper \/ SqsKey \/ SqsOrderDLQ \/ SqsResultDLQ
    \/ SqsOrderQueue \/ SqsResultQueue
    \/ SqsWebhookRole \/ SqsWorkerRole \/ SqsFeedbackRole
    \/ SqsOrderAgeAlarm \/ SqsResultAgeAlarm
    \/ SqsOrderDLQAlarm \/ SqsResultDLQAlarm
    \/ SqsTopic \/ SqsWire \/ SqsParams

(***************************************************************************)
(* ApiGatewayStack constructor (lib/api-gateway-stack.ts).                 *)
(* Resources aws-cdk-lib derives from a construct (the deployment and      *)
(* stage of a RestApi, invoke permissions) are held in the construct that  *)
(* declares them.                                                          *)
(***************************************************************************)
OptString(values) == {None} \cup {Some(v) : v \in values}
OptThrottleNumber == {None} \cup {Some(n) : n \in 0 .. MaxOverride}
OptThrottling ==
    {None} \cup
    {Some(t) : t \in [rateLimit : OptThrottleNumber,
                      burstLimit : OptThrottleNumber]}

ApiGatewayStackProps ==
    [environment : EnvNames,
     projectName : ProjectNames,
     account : {"111111111111"},
     lambdaFunctionName : {"telegram-webhook-lambda"},
     certificateArn : {"arn:aws:acm:cert"},
     hostedZoneId : {"Z0063833342G11THSVYEP"},
     hostedZoneName : {"qlibin.com"},
     domainName : {"tg.qlibin.com"},
     basePath : EnvNames,
     throttling : OptThrottling,
     existingDomainRegionalDomainName :
        OptString({"", "d-ekl8ubthta.execute-api.amazonaws.com"}),
     existingDomainRegionalHostedZoneId : OptString({"", "Z1U9ULNL0V5AJ3"}),
     createDnsRecord : OptBool]

ApiId == apiArgs[1].id
ApiProps == apiArgs[1].props

\* const { createDnsRecord = true } = props
createDnsRecord == Coalesce(ApiProps.createDnsRecord, TRUE)

stackNameApi == ApiProps.projectName \o "-" \o ApiProps.environment
rateLimit == Coalesce(Chain(ApiProps.throttling, "rateLimit"), 10)
\* faulty variant: the burst follows the rate override
burstLimitFromRate == Coalesce(Chain(ApiProps.throttling, "rateLimit"), 25)

burstLimit == Coalesce(Chain(ApiProps.throttling, "burstLimit"), 25)

ApiSuper ==
    /\ pc = "api_super"
    /\ stacks' = Append(stacks,
          [id |-> ApiId, kind |-> "ApiGatewayStack",
           account |-> ApiProps.account, dependencies |-> {}, tags |-> {}])
    /\ pc' = "api_restApi"
    /\ UNCHANGED <<run, previous, entry, context, envCfg, sqsArgs, apiArgs, resources,
                   customDomain, error>>

RestApiResource ==
    [stack |-> ApiId, id |-> "RestApi", type |-> "AWS::ApiGateway::RestApi",
     restApiName |->
        ApiProps.projectName \o "-telegram-bot-api-" \o ApiProps.environment,
     endpointTypes |-> <<"REGIONAL">>,
     disableExecuteApiEndpoint |-> TRUE,
     deployOptions |->
        [stageName |-> ApiProps.environment,
         throttlingRateLimit |-> rateLimit,
         throttlingBurstLimit |-> burstLimit,
         loggingLevel |-> "INFO",
         dataTraceEnabled |-> FALSE,
         metricsEnabled |-> TRUE]]

ApiRestApi ==
    /\ pc = "api_restApi"
    /\ Emit(RestApiResource)
    /\ pc' = "api_listener"
    /\ UNCHANGED <<run, previous, entry, context, envCfg, sqsArgs, apiArgs, stacks,
                   customDomain, error>>

ListenerResource ==
    [stack |-> ApiId, id |-> "qlibin-assistant-listener",
     type |-> "AWS::ApiGateway::Resource",
     parent |-> "RestApi", pathPart |-> "qlibin-assistant-listener"]

ApiListener ==
    /\ pc = "api_listener"
    /\ Emit(ListenerResource)
    /\ pc' = "api_method"
    /\ UNCHANGED <<run, previous, entry, context, envCfg, sqsArgs, apiArgs, stacks,
                   customDomain, error>>

\* the function is imported by name (LambdaFunction.fromFunctionName)
PostMethodResource ==
    [stack |-> ApiId, id |-> "POST", type |-> "AWS::ApiGateway::Method",
     resource |-> "qlibin-assistant-listener", httpMethod |-> "POST",
     integration |->
        [functionName |-> ApiProps.lambdaFunctionName, imported |-> TRUE,
         proxy |-> TRUE, timeout |-> DurationSeconds(29)]]

ApiMethod ==
    /\ pc = "api_method"
    /\ Emit(PostMethodResource)
    /\ pc' = "api_domain"
    /\ UNCHANGED <<run, previous, entry, context, envCfg, sqsArgs, apiArgs, stacks,
                   customDomain, error>>

ImportBranch ==
    /\ Truthy(ApiProps.existingDomainRegionalDomainName)
    /\ Truthy(ApiProps.existingDomainRegionalHostedZoneId)

\* DomainName.fromDomainNameAttributes: a handle, no resource
ImportedDomain ==
    [imported |-> TRUE,
     domainName |-> ApiProps.domainName,
     domainNameAliasTarget |-> ApiProps.existingDomainRegionalDomainName[1],
     domainNameAliasHostedZoneId |->
        ApiProps.existingDomainRegionalHostedZoneId[1]]

\* faulty variant: the import branch leaves out the path mapping
ApiImportDomainNoMapping ==
    /\ pc = "api_domain"
    /\ ImportBranch
    /\ customDomain' = Some(ImportedDomain)
    /\ pc' = "api_topic"
    /\ UNCHANGED <<run, previous, entry, context, envCfg, sqsArgs, apiArgs,
                   stacks, resources, error>>

ApiImportDomain ==
    /\ pc = "api_domain"
    /\ ImportBranch
    /\ customDomain' = Some(ImportedDomain)
    /\ pc' = "api_mapping"
    /\ UNCHANGED <<run, previous, entry, context, envCfg, sqsArgs, apiArgs, stacks, resources,
                   error>>

DomainNameResource ==
    [stack |-> ApiId, id |-> "CustomDomain",
     type |-> "AWS::ApiGateway::DomainName",
     domainName |-> ApiProps.domainName,
     certificate |-> ApiProps.certificateArn,
     endpointType |-> "REGIONAL",
     securityPolicy |-> "TLS_1_2"]

CreatedDomain ==
    [imported |-> FALSE,
     domainName |-> ApiProps.domainName,
     domainNameAliasTarget |-> "CustomDomain.RegionalDomainName",
     domainNameAliasHostedZoneId |-> "CustomDomain.RegionalHostedZoneId"]

ApiCreateDomain ==
    /\ pc = "api_domain"
    /\ ~ImportBranch
    /\ Emit(DomainNameResource)
    /\ customDomain' = Some(CreatedDomain)
    /\ pc' = "api_mapping"
    /\ UNCHANGED <<run, previous, entry, context, envCfg, sqsArgs, apiArgs, stacks, error>>

BasePathMappingResource ==
    [stack |-> ApiId, id |-> "BasePathMapping",
     type |-> "AWS::ApiGateway::BasePathMapping",
     domainName |-> customDomain[1],
     restApi |-> "RestApi",
     basePath |-> ApiProps.basePath,
     stage |-> ApiProps.environment]

ApiMapping ==
    /\ pc = "api_mapping"
    /\ Emit(BasePathMappingResource)
    /\ pc' = "api_dns"
    /\ UNCHANGED <<run, previous, entry, context, envCfg, sqsArgs, apiArgs, stacks,
                   customDomain, error>>

\* faulty variant: the record follows the flag alone
DnsRecordWantedFlagOnly == createDnsRecord

\* faulty variant: the record is created when an alias target is given
DnsRecordWantedWithTarget ==
    createDnsRecord /\ Truthy(ApiProps.existingDomainRegionalDomainName)

\* if (createDnsRecord && !existingDomainRegionalDomainName)
DnsRecordWanted ==
    createDnsRecord /\ ~Truthy(ApiProps.existingDomainRegionalDomainName)

ARecordResource ==
    [stack |-> ApiId, id |-> "ApiAliasRecord",
     type |-> "AWS::Route53::RecordSet",
     zone |-> [hostedZoneId |-> ApiProps.hostedZoneId,
               zoneName |-> ApiProps.hostedZoneName],
     recordName |-> ApiProps.domainName,
     target |-> customDomain[1]]

ApiDnsRecord ==
    /\ pc = "api_dns"
    /\ DnsRecordWanted
    /\ Emit(ARecordResource)
    /\ pc' = "api_topic"
    /\ UNCHANGED <<run, previous, entry, context, envCfg, sqsArgs, apiArgs, stacks,
                   customDomain, error>>

ApiNoDnsRecord ==
    /\ pc = "api_dns"
    /\ ~DnsRecordWanted
    /\ pc' = "api_topic"
    /\ UNCHANGED <<run, previous, entry, context, envCfg, sqsArgs, apiArgs, stacks, resources,
                   customDomain, error>>

ApiAlertTopic ==
    [stack |-> ApiId, id |-> "ApiAlertTopic", type |-> "AWS::SNS::Topic",
     topicName |-> stackNameApi \o "-api-alerts",
     displayName |-> "API Gateway Alerts",
     masterKey |-> None]

ApiTopic ==
    /\ pc = "api_topic"
    /\ Emit(ApiAlertTopic)
    /\ pc' = "api_5xxAlarm"
    /\ UNCHANGED <<run, previous, entry, context, envCfg, sqsArgs, apiArgs, stacks,
                   customDomain, error>>

Api5XXErrorAlarm ==
    Alarm(ApiId, "Api5XXErrorAlarm", stackNameApi \o "-api-5xx-errors",
          "API Gateway 5XX errors detected",
          Metric("RestApi", "5XXError", Some(DurationMinutes(5)), Some("Sum")),
          5, 2, Some("NOT_BREACHING"))

ApiLatencyAlarm ==
    Alarm(ApiId, "ApiLatencyAlarm", stackNameApi \o "-api-latency",
          "API Gateway latency exceeds threshold",
          Metric("RestApi", "Latency", Some(DurationMinutes(5)), Some("p95")),
          5000, 3, Some("NOT_BREACHING"))

Api5xxAlarm ==
    /\ pc = "api_5xxAlarm"
    /\ Emit(Api5XXErrorAlarm)
    /\ pc' = "api_latencyAlarm"
    /\ UNCHANGED <<run, previous, entry, context, envCfg, sqsArgs, apiArgs, stacks,
                   customDomain, error>>

ApiLatency ==
    /\ pc = "api_latencyAlarm"
    /\ Emit(ApiLatencyAlarm)
    /\ pc' = "api_wire"
    /\ UNCHANGED <<run, previous, entry, context, envCfg, sqsArgs, apiArgs, stacks,
                   customDomain, error>>

ApiWire ==
    /\ pc = "api_wire"
    /\ resources' = WireAlarms(ApiId, {"Api5XXErrorAlarm", "ApiLatencyAlarm"},
                               "ApiAlertTopic")
    /\ pc' = "api_params"
    /\ UNCHANGED <<run, previous, entry, context, envCfg, sqsArgs, apiArgs, stacks,
                   customDomain, error>>

\* Arn.format({service: "execute-api", resource: restApiId, resourceName: "*"})
sourceArn == "arn:aws:execute-api:" \o ApiProps.account \o ":RestApi.Ref/*"

ApiParameters ==
    LET prefix == "/automation/" \o ApiProps.environment \o "/api-gateway/"
        P(id, path, value) == Parameter(ApiId, id, prefix \o path, value)
    IN << P("RestApiId", "rest-api-id", "RestApi.Ref"),
          P("RestApiUrl", "rest-api-url", "RestApi.Url"),
          P("DomainNameParam", "domain-name", ApiProps.domainName),
          P("StageName", "stage-name", ApiProps.environment),
          P("SourceArn", "source-arn", sourceArn) >>

ApiParams ==
    /\ pc = "api_params"
    /\ LET n == Cardinality(ResIdx(ApiId, "AWS::SSM::Parameter"))
       IN /\ Emit(ApiParameters[n + 1])
          /\ pc' = IF n + 1 < Len(ApiParameters) THEN "api_params"
                   ELSE IF entry = "bin" THEN "bin_api_dependency"
                   ELSE "done"
    /\ UNCHANGED <<run, previous, entry, context, envCfg, sqsArgs, apiArgs, stacks,
                   customDomain, error>>

ApiConstructor ==
    \/ ApiSuper \/ ApiRestApi \/ ApiListener \/ ApiMethod
    \/ ApiImportDomain \/ ApiCreateDomain \/ ApiMapping
    \/ ApiDnsRecord \/ ApiNoDnsRecord
    \/ ApiTopic \/ Api5xxAlarm \/ ApiLatency \/ ApiWire \/ ApiParams

(***************************************************************************)
(* Orchestrator (bin/tg-assistant-infra.ts).                               *)
(***************************************************************************)
DomainConfigs ==
    [certificateArn : OptString({"arn:aws:acm:cert"}),
     hostedZoneId : OptString({"Z0063833342G11THSVYEP"}),
     hostedZoneName : OptString({"qlibin.com"}),
     domainName : OptString({"tg.qlibin.com"}),
     existingDomainRegionalDomainName :
        OptString({"d-ekl8ubthta.execute-api.amazonaws.com"}),
     existingDomainRegionalHostedZoneId : OptString({"Z1U9ULNL0V5AJ3"})]

\* one entry of context.environments
EnvConfig(name, d) ==
    [account |-> Some("111111111111"), region |-> "eu-central-1",
     envName |-> Some(name), tags |-> None,
     certificateArn |-> d.certificateArn,
     hostedZoneId |-> d.hostedZoneId,
     hostedZoneName |-> d.hostedZoneName,
     domainName |-> d.domainName,
     existingDomainRegionalDomainName |-> d.existingDomainRegionalDomainName,
     existingDomainRegionalHostedZoneId |->
        d.existingDomainRegionalHostedZoneId]

\* names every object inherits from Object.prototype
InheritedNames ==
    {"constructor", "toString", "valueOf", "hasOwnProperty", "__proto__"}

\* an inherited member read as an EnvConfig: truthy, every field undefined
InheritedMember ==
    [account |-> None, region |-> "undefined", envName |-> None,
     tags |-> None,
     certificateArn |-> None,
     hostedZoneId |-> None,
     hostedZoneName |-> None,
     domainName |-> None,
     existingDomainRegionalDomainName |-> None,
     existingDomainRegionalHostedZoneId |-> None]

\* environments[name]: an own entry, else an inherited member, else undefined
Lookup(environments, name) ==
    IF name \in DOMAIN environments THEN Some(environments[name])
    ELSE IF name \in InheritedNames THEN Some(InheritedMember)
    ELSE None

\* `${v}` of an optional string
Interpolate(v) == IF v = None THEN "undefined" ELSE v[1]

Registries ==
    {None} \cup
    {Some([k \in K |-> EnvConfig(k, d)]) :
        K \in SUBSET EnvNames, d \in DomainConfigs}

Contexts ==
    [environment : OptString({"prod", "constructor"}),
     ENV_NAME : OptString({"dev"}),
     defaultEnvironment : OptString({"prod"}),
     environments : Registries,
     AWS_ACCOUNT_ID : OptString({""} \cup Accounts)]

\* context "environment" ?? context "ENV_NAME" ?? undefined
environmentName ==
    IF context.environment # None THEN context.environment
    ELSE context.ENV_NAME

\* faulty variant: defaultEnvironment is taken before the given name
resolvedEnvNameDefaultFirst ==
    IF context.defaultEnvironment # None THEN context.defaultEnvironment[1]
    ELSE IF environmentName # None THEN environmentName[1]
    ELSE "dev"

\* const resolvedEnvName = environmentName ?? defaultEnvironment ?? "dev"
resolvedEnvName ==
    IF environmentName # None THEN environmentName[1]
    ELSE Coalesce(context.defaultEnvironment, "dev")

\* faulty variant: an empty registry passes the first check
BinCheckRegistryAllowsEmpty ==
    /\ pc = "bin_start"
    /\ IF context.environments = None
       THEN Throw([message |-> "CDK context missing"])
       ELSE pc' = "bin_resolve" /\ UNCHANGED error
    /\ UNCHANGED <<run, previous, entry, context, envCfg, sqsArgs, apiArgs, stacks, resources,
                   customDomain>>

\* if (!environments || Object.keys(environments).length === 0) throw
BinCheckRegistry ==
    /\ pc = "bin_start"
    /\ IF context.environments = None \/ DOMAIN context.environments[1] = {}
       THEN Throw([message |-> "CDK context missing"])
       ELSE pc' = "bin_resolve" /\ UNCHANGED error
    /\ UNCHANGED <<run, previous, entry, context, envCfg, sqsArgs, apiArgs, stacks, resources,
                   customDomain>>

\* const envCfg = environments[resolvedEnvName]; if (!envCfg) throw
BinResolve ==
    /\ pc = "bin_resolve"
    /\ LET environments == context.environments[1]
       IN IF Lookup(environments, resolvedEnvName) # None
          THEN /\ envCfg' = Lookup(environments, resolvedEnvName)
               /\ pc' = "bin_account"
               /\ UNCHANGED error
          ELSE /\ Throw([message |-> "Unknown environment",
                         name |-> resolvedEnvName,
                         available |-> DOMAIN environments])
               /\ UNCHANGED envCfg
    /\ UNCHANGED <<run, previous, entry, context, sqsArgs, apiArgs, stacks, resources,
                   customDomain>>

\* faulty variant: the supplied account id is not compared
BinCheckAccountSkipped ==
    /\ pc = "bin_account"
    /\ pc' = "bin_sqs"
    /\ UNCHANGED <<run, previous, entry, context, envCfg, sqsArgs, apiArgs, stacks, resources,
                   customDomain, error>>

\* if (providedAccountId && providedAccountId !== envCfg.account) throw
BinCheckAccount ==
    /\ pc = "bin_account"
    /\ LET providedAccountId == context.AWS_ACCOUNT_ID
       IN IF Truthy(providedAccountId)
             /\ providedAccountId # envCfg[1].account
          THEN Throw([message |-> "AWS account mismatch",
                      provided |-> providedAccountId[1],
                      account |-> Interpolate(envCfg[1].account),
                      name |-> resolvedEnvName])
          ELSE pc' = "bin_sqs" /\ UNCHANGED error
    /\ UNCHANGED <<run, previous, entry, context, envCfg, sqsArgs, apiArgs, stacks, resources,
                   customDomain>>

\* the builder only interpolates `environment` into names and paths; an
\* unset account leaves the stack's account to the deployment
BinSqsArgs ==
    [id |-> "DualQueueMessageStack-" \o Interpolate(envCfg[1].envName),
     props |->
        [environment |-> Interpolate(envCfg[1].envName),
         projectName |-> "tg-assistant",
         account |-> Coalesce(envCfg[1].account, "AWS::AccountId"),
         enableEncryption |-> None,
         enableCostOptimization |-> None,
         watchTowerTopicArn |-> None,
         orderQueueConfig |-> None,
         resultQueueConfig |-> None]]

\* const sqsStack = new SQSStack(app, ...)
BinNewSqs ==
    /\ pc = "bin_sqs"
    /\ sqsArgs' = Some(BinSqsArgs)
    /\ pc' = "sqs_super"
    /\ UNCHANGED <<run, previous, entry, context, envCfg, apiArgs, stacks, resources,
                   customDomain, error>>

\* Tag (aws-cdk-lib) rejects an undefined value when constructed
TagThrows(value) == value = None

\* cdk.Tags.of(stack).add("app", ...); cdk.Tags.of(stack).add("env", ...)
AddTags(id) ==
    [i \in DOMAIN stacks |->
        IF stacks[i].id = id
        THEN [stacks[i] EXCEPT
                !.tags = @ \cup {<<"app", "telegram-webhook">>,
                                 <<"env", Interpolate(envCfg[1].envName)>>}]
        ELSE stacks[i]]

BinSqsTags ==
    /\ pc = "bin_sqs_tags"
    /\ IF TagThrows(envCfg[1].envName)
       THEN /\ Throw([message |-> "Tag must have a value"])
            /\ stacks' = [i \in DOMAIN stacks |->
                  IF stacks[i].id = SqsId
                  THEN [stacks[i] EXCEPT
                          !.tags = @ \cup {<<"app", "telegram-webhook">>}]
                  ELSE stacks[i]]
       ELSE /\ stacks' = AddTags(SqsId)
            /\ pc' = "bin_gateway"
            /\ UNCHANGED error
    /\ UNCHANGED <<run, previous, entry, context, envCfg, sqsArgs, apiArgs, resources,
                   customDomain>>

\* faulty variant: the gateway also needs the alias target
GatewayConfiguredNeedsAlias ==
    /\ Truthy(envCfg[1].certificateArn)
    /\ Truthy(envCfg[1].hostedZoneId)
    /\ Truthy(envCfg[1].hostedZoneName)
    /\ Truthy(envCfg[1].domainName)
    /\ Truthy(envCfg[1].existingDomainRegionalDomainName)

\* if (certificateArn && hostedZoneId && hostedZoneName && domainName)
GatewayConfigured ==
    /\ Truthy(envCfg[1].certificateArn)
    /\ Truthy(envCfg[1].hostedZoneId)
    /\ Truthy(envCfg[1].hostedZoneName)
    /\ Truthy(envCfg[1].domainName)

\* faulty variant: the alias zone is not passed on to the gateway builder
BinApiArgsNoZone ==
    [id |-> "ApiGatewayStack-" \o Interpolate(envCfg[1].envName),
     props |->
        [environment |-> Interpolate(envCfg[1].envName),
         projectName |-> "tg-assistant",
         account |-> Coalesce(envCfg[1].account, "AWS::AccountId"),
         lambdaFunctionName |->
            "telegram-webhook-lambda-" \o Interpolate(envCfg[1].envName),
         certificateArn |-> envCfg[1].certificateArn[1],
         hostedZoneId |-> envCfg[1].hostedZoneId[1],
         hostedZoneName |-> envCfg[1].hostedZoneName[1],
         domainName |-> envCfg[1].domainName[1],
         basePath |-> Interpolate(envCfg[1].envName),
         throttling |-> None,
         existingDomainRegionalDomainName |->
            envCfg[1].existingDomainRegionalDomainName,
         existingDomainRegionalHostedZoneId |-> None,
         createDnsRecord |-> Some(FALSE)]]

\* faulty variant: the orchestrator leaves createDnsRecord to its default
BinApiArgsDefaultRecord ==
    [id |-> "ApiGatewayStack-" \o Interpolate(envCfg[1].envName),
     props |->
        [environment |-> Interpolate(envCfg[1].envName),
         projectName |-> "tg-assistant",
         account |-> Coalesce(envCfg[1].account, "AWS::AccountId"),
         lambdaFunctionName |->
            "telegram-webhook-lambda-" \o Interpolate(envCfg[1].envName),
         certificateArn |-> envCfg[1].certificateArn[1],
         hostedZoneId |-> envCfg[1].hostedZoneId[1],
         hostedZoneName |-> envCfg[1].hostedZoneName[1],
         domainName |-> envCfg[1].domainName[1],
         basePath |-> Interpolate(envCfg[1].envName),
         throttling |-> None,
         existingDomainRegionalDomainName |->
            envCfg[1].existingDomainRegionalDomainName,
         existingDomainRegionalHostedZoneId |->
            envCfg[1].existingDomainRegionalHostedZoneId,
         createDnsRecord |-> None]]

BinApiArgs ==
    [id |-> "ApiGatewayStack-" \o Interpolate(envCfg[1].envName),
     props |->
        [environment |-> Interpolate(envCfg[1].envName),
         projectName |-> "tg-assistant",
         account |-> Coalesce(envCfg[1].account, "AWS::AccountId"),
         lambdaFunctionName |->
            "telegram-webhook-lambda-" \o Interpolate(envCfg[1].envName),
         certificateArn |-> envCfg[1].certificateArn[1],
         hostedZoneId |-> envCfg[1].hostedZoneId[1],
         hostedZoneName |-> envCfg[1].hostedZoneName[1],
         domainName |-> envCfg[1].domainName[1],
         basePath |-> Interpolate(envCfg[1].envName),
         throttling |-> None,
         existingDomainRegionalDomainName |->
            envCfg[1].existingDomainRegionalDomainName,
         existingDomainRegionalHostedZoneId |->
            envCfg[1].existingDomainRegionalHostedZoneId,
         createDnsRecord |-> Some(FALSE)]]

BinNewApi ==
    /\ pc = "bin_gateway"
    /\ GatewayConfigured
    /\ apiArgs' = Some(BinApiArgs)
    /\ pc' = "api_super"
    /\ UNCHANGED <<run, previous, entry, context, envCfg, sqsArgs, stacks, resources,
                   customDomain, error>>

BinSkipApi ==
    /\ pc = "bin_gateway"
    /\ ~GatewayConfigured
    /\ pc' = "done"
    /\ UNCHANGED <<run, previous, entry, context, envCfg, sqsArgs, apiArgs, stacks, resources,
                   customDomain, error>>

\* faulty variant: the dependency is recorded on the target
AddDependencyReversed(id, target) ==
    [i \in DOMAIN stacks |->
        IF stacks[i].id = target
        THEN [stacks[i] EXCEPT !.dependencies = @ \cup {id}]
        ELSE stacks[i]]

\* apiGatewayStack.addDependency(sqsStack)
AddDependency(id, target) ==
    [i \in DOMAIN stacks |->
        IF stacks[i].id = id
        THEN [stacks[i] EXCEPT !.dependencies = @ \cup {target}]
        ELSE stacks[i]]

BinApiDependency ==
    /\ pc = "bin_api_dependency"
    /\ stacks' = AddDependency(ApiId, SqsId)
    /\ pc' = "bin_api_tags"
    /\ UNCHANGED <<run, previous, entry, context, envCfg, sqsArgs, apiArgs, resources,
                   customDomain, error>>

\* envCfg.envName is set here: the gateway guard needs an own entry
BinApiTags ==
    /\ pc = "bin_api_tags"
    /\ stacks' = AddTags(ApiId)
    /\ pc' = "done"
    /\ UNCHANGED <<run, previous, entry, context, envCfg, sqsArgs, apiArgs, resources,
                   customDomain, error>>

Orchestrator ==
    \/ BinCheckRegistry \/ BinResolve \/ BinCheckAccount
    \/ BinNewSqs \/ BinSqsTags
    \/ BinNewApi \/ BinSkipApi
    \/ BinApiDependency \/ BinApiTags

(***************************************************************************)
(* Specification.                                                          *)
(***************************************************************************)
NoContext ==
    [environment |-> None, ENV_NAME |-> None, defaultEnvironment |-> None,
     environments |-> None, AWS_ACCOUNT_ID |-> None]

InitBin ==
    /\ entry = "bin"
    /\ pc = "bin_start"
    /\ context \in Contexts
    /\ sqsArgs = None
    /\ apiArgs = None

\* new SQSStack(app, "TestStack", props)
InitSqs ==
    /\ entry = "sqs"
    /\ pc = "sqs_super"
    /\ context = NoContext
    /\ sqsArgs \in {Some([id |-> "TestStack", props |-> p]) : p \in SQSStackProps}
    /\ apiArgs = None

\* new ApiGatewayStack(app, "TestApiGatewayStack", props)
InitApi ==
    /\ entry = "api"
    /\ pc = "api_super"
    /\ context = NoContext
    /\ sqsArgs = None
    /\ apiArgs \in {Some([id |-> "TestApiGatewayStack", props |-> p]) :
                        p \in ApiGatewayStackProps}

Init ==
    /\ InitBin \/ InitSqs \/ InitApi
    /\ envCfg = None
    /\ stacks = << >>
    /\ resources = << >>
    /\ customDomain = None
    /\ error = None
    /\ run = 1
    /\ previous = None

Next == Orchestrator \/ SqsConstructor \/ ApiConstructor

Spec == Init /\ [][Next]_vars

(***************************************************************************)
(* The same entry point run again with the same input.                     *)
(***************************************************************************)
MaxRuns == 2

\* what a finished run leaves: its error, or its graph
Outcome ==
    [ended |-> pc, error |-> error, stacks |-> stacks,
     resources |-> resources, customDomain |-> customDomain]

\* faulty variant: the second run starts on the first run's app
RestartOnSameApp ==
    /\ pc \in {"done", "error"}
    /\ run < MaxRuns
    /\ previous' = Some(Outcome)
    /\ run' = run + 1
    /\ pc' = IF entry = "bin" THEN "bin_start"
             ELSE IF entry = "sqs" THEN "sqs_super"
             ELSE "api_super"
    /\ envCfg' = None
    /\ sqsArgs' = IF entry = "sqs" THEN sqsArgs ELSE None
    /\ apiArgs' = IF entry = "api" THEN apiArgs ELSE None
    /\ customDomain' = None
    /\ error' = None
    /\ UNCHANGED <<entry, context, stacks, resources>>

\* a new process: `const app = new cdk.App()`, then the same statements on
\* the same context, environment and props
Restart ==
    /\ pc \in {"done", "error"}
    /\ run < MaxRuns
    /\ previous' = Some(Outcome)
    /\ run' = run + 1
    /\ pc' = IF entry = "bin" THEN "bin_start"
             ELSE IF entry = "sqs" THEN "sqs_super"
             ELSE "api_super"
    /\ envCfg' = None
    /\ sqsArgs' = IF entry = "sqs" THEN sqsArgs ELSE None
    /\ apiArgs' = IF entry = "api" THEN apiArgs ELSE None
    /\ stacks' = << >>
    /\ resources' = << >>
    /\ customDomain' = None
    /\ error' = None
    /\ UNCHANGED <<entry, context>>

NextTwice == Orchestrator \/ SqsConstructor \/ ApiConstructor \/ Restart

SpecTwice == Init /\ [][NextTwice]_vars

(***************************************************************************)
(* The messaging builder called with its optional props, then called again *)
(* on a new app without the reserved props, then without enableEncryption. *)
(***************************************************************************)
FrameQueueConfigs ==
    {None,
     Some([visibilityTimeoutSeconds |-> Some(1), maxReceiveCount |-> None])}

FrameProps ==
    [environment : EnvNames,
     projectName : ProjectNames,
     account : {"111111111111"},
     enableEncryption : OptBool,
     enableCostOptimization : OptBool,
     watchTowerTopicArn :
        OptString({"arn:aws:sns:eu-central-1:111111111111:watch-tower"}),
     orderQueueConfig : FrameQueueConfigs,
     resultQueueConfig : {None}]

InitFrame ==
    /\ entry = "sqs"
    /\ pc = "sqs_super"
    /\ context = NoContext
    /\ sqsArgs \in {Some([id |-> "TestStack", props |-> p]) : p \in FrameProps}
    /\ apiArgs = None
    /\ envCfg = None
    /\ stacks = << >>
    /\ resources = << >>
    /\ customDomain = None
    /\ error = None
    /\ run = 1
    /\ previous = None

\* new SQSStack on a new app with the given props
Rebuild(props) ==
    /\ pc \in {"done", "error"}
    /\ previous' = Some(Outcome)
    /\ run' = run + 1
    /\ pc' = "sqs_super"
    /\ sqsArgs' = Some([id |-> SqsId, props |-> props])
    /\ stacks' = << >>
    /\ resources' = << >>
    /\ customDomain' = None
    /\ error' = None
    /\ UNCHANGED <<entry, context, envCfg, apiArgs>>

RebuildWithoutReserved ==
    /\ run = 1
    /\ Rebuild([SqsProps EXCEPT !.enableCostOptimization = None,
                                !.watchTowerTopicArn = None])

RebuildWithoutEncryptionFlag ==
    /\ run = 2
    /\ Rebuild([SqsProps EXCEPT !.enableEncryption = None])

NextFrame ==
    SqsConstructor \/ RebuildWithoutReserved \/ RebuildWithoutEncryptionFlag

SpecFrame == InitFrame /\ [][NextFrame]_vars

(***************************************************************************)
(* Properties.                                                             *)
(***************************************************************************)
SqsPcs ==
    {"sqs_super", "sqs_key", "sqs_orderDLQ", "sqs_resultDLQ", "sqs_orderQueue",
     "sqs_resultQueue", "sqs_webhookRole", "sqs_workerRole", "sqs_feedbackRole",
     "sqs_orderAgeAlarm", "sqs_resultAgeAlarm", "sqs_orderDLQAlarm",
     "sqs_resultDLQAlarm", "sqs_topic", "sqs_wire", "sqs_params"}

ApiPcs ==
    {"api_super", "api_restApi", "api_listener", "api_method", "api_domain",
     "api_mapping", "api_dns", "api_topic", "api_5xxAlarm", "api_latencyAlarm",
     "api_wire", "api_params"}

\* the SQSStack constructor has returned: its graph is the produced one
SqsReturned == sqsArgs # None /\ pc \notin SqsPcs \cup {"error"}

\* the ApiGatewayStack constructor has returned
ApiReturned == apiArgs # None /\ pc \notin ApiPcs \cup {"error"}

Res(stack, id) == resources[Find(stack, id)]
Count(stack, type) == Cardinality(ResIdx(stack, type))

RoleIds == {"WebhookLambdaRole", "WorkerLambdaRole", "FeedbackLambdaRole"}
QueueIds == {"OrderQueue", "ResultQueue", "OrderDLQ", "ResultDLQ"}

\* capability named by an IAM action
ActionKind(a) ==
    CASE a = "sqs:SendMessage" -> "send"
      [] a \in {"sqs:GetQueueAttributes", "sqs:GetQueueUrl"} -> "describe"
      [] a = "sqs:ReceiveMessage" -> "receive"
      [] a = "sqs:DeleteMessage" -> "delete"
      [] a = "sqs:ChangeMessageVisibility" -> "change-visibility"
      [] a = "kms:Decrypt" -> "decrypt"
      [] a = "kms:GenerateDataKey" -> "generate-data-key"
      [] OTHER -> "other"

StatementsOf(role) ==
    UNION {{role.inlinePolicies[p].statements[k] :
                k \in DOMAIN role.inlinePolicies[p].statements} :
            p \in DOMAIN role.inlinePolicies}

\* (capability, resource) pairs a role's inline policies allow
Grants(role) ==
    UNION {{<<ActionKind(a), r>> : a \in st.actions, r \in st.resources} :
            st \in StatementsOf(role)}

IntakeArn == "OrderQueue.Arn"
ResultArn == "ResultQueue.Arn"
SharedKeyArn == "QueueEncryptionKey.Arn"

KeyGrants == {<<"decrypt", SharedKeyArn>>, <<"generate-data-key", SharedKeyArn>>}
Consume(q) ==
    {<<"receive", q>>, <<"delete", q>>, <<"change-visibility", q>>,
     <<"describe", q>>}
Produce(q) == {<<"send", q>>, <<"describe", q>>}

PermissionTable(id) ==
    CASE id = "WebhookLambdaRole" -> Produce(IntakeArn) \cup KeyGrants
      [] id = "WorkerLambdaRole" ->
            Consume(IntakeArn) \cup Produce(ResultArn) \cup KeyGrants
      [] id = "FeedbackLambdaRole" ->
            Consume(ResultArn) \cup Produce(IntakeArn) \cup KeyGrants

\* C1: in every produced messaging graph exactly three roles exist (webhook,
\* worker, feedback) and the inline grants of each are exactly the rows of the
\* permission table plus decrypt and generate-data-key on the shared key.
C1_RolesMatchPermissionTable ==
    SqsReturned =>
        /\ Count(SqsId, "AWS::IAM::Role") = 3
        /\ {resources[i].id : i \in ResIdx(SqsId, "AWS::IAM::Role")} = RoleIds
        /\ \A i \in ResIdx(SqsId, "AWS::IAM::Role") :
              /\ Grants(resources[i]) = PermissionTable(resources[i].id)
              /\ \A st \in StatementsOf(resources[i]) : st.effect = "ALLOW"

C1_Witness ==
    /\ SqsReturned
    /\ entry = "sqs"
    /\ SqsProps.enableEncryption = Some(FALSE)
    /\ SqsProps.orderQueueConfig # None
    /\ Count(SqsId, "AWS::IAM::Role") = 3
    /\ Grants(Res(SqsId, "FeedbackLambdaRole"))
          = PermissionTable("FeedbackLambdaRole")

AllowedResources(id) ==
    IF id = "WebhookLambdaRole" THEN {IntakeArn, SharedKeyArn}
    ELSE {IntakeArn, ResultArn, SharedKeyArn}

\* C2: at every step no statement of any role has a wildcard resource, every
\* statement's resources lie within the queues and key relevant to the role,
\* and no statement names a dead-letter queue.
C2_NoWildcardNoDLQ ==
    \A i \in DOMAIN resources :
        resources[i].type = "AWS::IAM::Role" =>
            \A st \in StatementsOf(resources[i]) :
                /\ st.resources # {}
                /\ "*" \notin st.resources
                /\ st.resources \subseteq AllowedResources(resources[i].id)
                /\ st.resources \cap {"OrderDLQ.Arn", "ResultDLQ.Arn"} = {}

C2_Witness ==
    /\ SqsReturned
    /\ Count(SqsId, "AWS::IAM::Role") = 3
    /\ \E st \in StatementsOf(Res(SqsId, "WorkerLambdaRole")) :
          st.resources = {ResultArn}

QueuesWithKey ==
    {resources[i].id :
        i \in {j \in ResIdx(SqsId, "AWS::SQS::Queue") :
                 resources[j].encryptionMasterKey = Some("QueueEncryptionKey")}}

C4_OneRotatingKey ==
    /\ \A i \in DOMAIN resources :
          resources[i].type = "AWS::KMS::Key" => resources[i].enableKeyRotation
    /\ SqsReturned => Count(SqsId, "AWS::KMS::Key") = 1

C4_Witness ==
    /\ SqsReturned
    /\ SqsProps.enableEncryption = Some(FALSE)
    /\ Res(SqsId, "QueueEncryptionKey").enableKeyRotation

SevenDays == 7 * 86400

\* C5: the messaging graph has exactly four queues; each primary queue's
\* redrive target is its own dead-letter queue, created before it; the
\* dead-letter queues have no redrive target and 7 days of retention.
C5_QueueTopology ==
    SqsReturned =>
        /\ Count(SqsId, "AWS::SQS::Queue") = 4
        /\ {resources[i].id : i \in ResIdx(SqsId, "AWS::SQS::Queue")} = QueueIds
        /\ Res(SqsId, "OrderQueue").deadLetterQueue # None
        /\ Res(SqsId, "OrderQueue").deadLetterQueue[1].queue = "OrderDLQ"
        /\ Res(SqsId, "ResultQueue").deadLetterQueue # None
        /\ Res(SqsId, "ResultQueue").deadLetterQueue[1].queue = "ResultDLQ"
        /\ Find(SqsId, "OrderDLQ") < Find(SqsId, "OrderQueue")
        /\ Find(SqsId, "ResultDLQ") < Find(SqsId, "ResultQueue")
        /\ \A d \in {"OrderDLQ", "ResultDLQ"} :
              /\ Res(SqsId, d).deadLetterQueue = None
              /\ toSeconds(Res(SqsId, d).retentionPeriod) = SevenDays

C5_Witness ==
    /\ SqsReturned
    /\ Count(SqsId, "AWS::SQS::Queue") = 4
    /\ Res(SqsId, "ResultQueue").deadLetterQueue[1].queue = "ResultDLQ"
    /\ Res(SqsId, "ResultQueue").deadLetterQueue[1].maxReceiveCount = 1

\* the maxReceiveCount override a caller supplied for a queue, if any
SuppliedMaxReceive(cfg) ==
    IF cfg = None THEN None ELSE cfg[1].maxReceiveCount

ExpectedMaxReceive(cfg) ==
    IF SuppliedMaxReceive(cfg) = None THEN 3 ELSE SuppliedMaxReceive(cfg)[1]

\* C6: the intake queue's redrive maxReceiveCount is its override when one is
\* supplied and 3 otherwise, and likewise, independently, the result queue's.
C6_MaxReceiveCountOverride ==
    SqsReturned =>
        /\ Res(SqsId, "OrderQueue").deadLetterQueue[1].maxReceiveCount
              = ExpectedMaxReceive(SqsProps.orderQueueConfig)
        /\ Res(SqsId, "ResultQueue").deadLetterQueue[1].maxReceiveCount
              = ExpectedMaxReceive(SqsProps.resultQueueConfig)

C6_Witness ==
    /\ SqsReturned
    /\ SuppliedMaxReceive(SqsProps.orderQueueConfig) = Some(1)
    /\ SuppliedMaxReceive(SqsProps.resultQueueConfig) = None
    /\ SqsProps.resultQueueConfig # None
    /\ Res(SqsId, "OrderQueue").deadLetterQueue[1].maxReceiveCount = 1
    /\ Res(SqsId, "ResultQueue").deadLetterQueue[1].maxReceiveCount = 3

\* C7: every produced messaging graph has maxReceiveCount >= 1 and a positive
\* visibility timeout on both primary queues.
C7_PositiveCountsAndTimeouts ==
    SqsReturned =>
        \A q \in {"OrderQueue", "ResultQueue"} :
            /\ Res(SqsId, q).deadLetterQueue[1].maxReceiveCount >= 1
            /\ toSeconds(Res(SqsId, q).visibilityTimeout[1]) > 0

\* C8: in the Import branch the gateway graph has no domain resource and no
\* DNS record, whatever the create-record flag, and its one path mapping
\* references the imported domain.
C8_ImportCreatesNoDomainNoRecord ==
    (ApiReturned /\ ImportBranch) =>
        /\ Count(ApiId, "AWS::ApiGateway::DomainName") = 0
        /\ Count(ApiId, "AWS::Route53::RecordSet") = 0
        /\ Count(ApiId, "AWS::ApiGateway::BasePathMapping") = 1
        /\ Res(ApiId, "BasePathMapping").domainName.imported
        /\ Res(ApiId, "BasePathMapping").domainName.domainNameAliasTarget
              = ApiProps.existingDomainRegionalDomainName[1]
        /\ Res(ApiId, "BasePathMapping").domainName.domainName
              = ApiProps.domainName

C8_Witness ==
    /\ ApiReturned
    /\ ImportBranch
    /\ ApiProps.createDnsRecord = Some(TRUE)
    /\ Count(ApiId, "AWS::ApiGateway::BasePathMapping") = 1

\* the create-record flag, true when unset
CreateRecordFlag ==
    IF ApiProps.createDnsRecord = None THEN TRUE ELSE ApiProps.createDnsRecord[1]

\* C9: whenever the Import branch is not taken exactly one domain resource
\* exists, bound to the certificate with TLS 1.2, and a DNS alias record
\* exists if and only if the create-record flag is true.
C9_CreateBranchRecordIffFlag ==
    (ApiReturned /\ ~ImportBranch) =>
        /\ Count(ApiId, "AWS::ApiGateway::DomainName") = 1
        /\ Res(ApiId, "CustomDomain").certificate = ApiProps.certificateArn
        /\ Res(ApiId, "CustomDomain").securityPolicy = "TLS_1_2"
        /\ (Count(ApiId, "AWS::Route53::RecordSet") = 1) <=> CreateRecordFlag
        /\ Count(ApiId, "AWS::Route53::RecordSet") <= 1

ImportedMappingOnly ==
    /\ Count(ApiId, "AWS::ApiGateway::DomainName") = 0
    /\ Count(ApiId, "AWS::Route53::RecordSet") = 0
    /\ Count(ApiId, "AWS::ApiGateway::BasePathMapping") = 1
    /\ Res(ApiId, "BasePathMapping").domainName.imported
    /\ Res(ApiId, "BasePathMapping").domainName.domainNameAliasTarget
          = envCfg[1].existingDomainRegionalDomainName[1]

OrchestratorDone == entry = "bin" /\ pc = "done"

GatewayStackExists ==
    \E i \in DOMAIN stacks : stacks[i].kind = "ApiGatewayStack"
MessagingStackExists ==
    \E i \in DOMAIN stacks : stacks[i].kind = "SQSStack"

HasZoneAndDomain ==
    /\ Truthy(envCfg[1].domainName)
    /\ Truthy(envCfg[1].hostedZoneId)
    /\ Truthy(envCfg[1].hostedZoneName)

HasImportData ==
    /\ Truthy(envCfg[1].existingDomainRegionalDomainName)
    /\ Truthy(envCfg[1].existingDomainRegionalHostedZoneId)

\* C11 as stated: the orchestrator builds the gateway stack exactly when the
\* configuration has a domain name, hosted-zone id and name and either a
\* certificate or import data; otherwise it ends without error with the
\* messaging stack built.
C11_GatewayIffCertificateOrImport ==
    OrchestratorDone =>
        /\ GatewayStackExists <=>
              (HasZoneAndDomain
                 /\ (Truthy(envCfg[1].certificateArn) \/ HasImportData))
        /\ MessagingStackExists
        /\ error = None

\* C11 amended: the gateway stack is built exactly when the configuration has
\* a certificate, a hosted-zone id and name and a domain name (import data
\* does not stand in for the certificate); otherwise the run ends without
\* error with the messaging stack built, and no error arises at or after
\* the gateway decision.
C11_GatewayIffCertificateZoneDomain ==
    /\ OrchestratorDone =>
          /\ GatewayStackExists <=>
                (HasZoneAndDomain /\ Truthy(envCfg[1].certificateArn))
          /\ MessagingStackExists
          /\ error = None
    /\ (entry = "bin" /\ pc = "error") =>
          (apiArgs = None /\ ~GatewayStackExists)

C11_Witness ==
    /\ OrchestratorDone
    /\ HasZoneAndDomain
    /\ HasImportData
    /\ envCfg[1].certificateArn = None
    /\ ~GatewayStackExists
    /\ MessagingStackExists
    /\ Count(SqsId, "AWS::SSM::Parameter") = 9

StackIdx(kind) == {i \in DOMAIN stacks : stacks[i].kind = kind}

BinValidated ==
    /\ entry = "bin"
    /\ pc \notin {"bin_start", "bin_resolve", "bin_account", "error"}

\* C12: every validated orchestrator run instantiates the messaging stack
\* (it exists from the return of its constructor's first step on, and in
\* every completed run); a gateway stack only exists with a messaging stack
\* instantiated before it, and the completed run records the dependency
\* gateway -> messaging and none in the other direction.
C12_MessagingBeforeGateway ==
    /\ (BinValidated /\ pc \notin {"bin_sqs", "sqs_super"})
          => Cardinality(StackIdx("SQSStack")) = 1
    /\ entry = "bin" =>
          \A g \in StackIdx("ApiGatewayStack") :
              \E m \in StackIdx("SQSStack") : m < g
    /\ OrchestratorDone =>
          \A g \in StackIdx("ApiGatewayStack") :
              /\ stacks[g].dependencies = {stacks[m].id : m \in StackIdx("SQSStack")}
              /\ \A m \in StackIdx("SQSStack") :
                    stacks[g].id \notin stacks[m].dependencies

C12_Witness ==
    /\ OrchestratorDone
    /\ StackIdx("ApiGatewayStack") = {2}
    /\ StackIdx("SQSStack") = {1}
    /\ stacks[2].dependencies = {stacks[1].id}

GivenName ==
    IF context.environment # None THEN context.environment
    ELSE IF context.ENV_NAME # None THEN context.ENV_NAME
    ELSE None

PrecedenceName ==
    IF GivenName # None THEN GivenName[1]
    ELSE IF context.defaultEnvironment # None
         THEN context.defaultEnvironment[1]
         ELSE "dev"

\* C13: the orchestrator resolves the environment name as the given name
\* (context key environment, else context key ENV_NAME) when one is set,
\* otherwise defaultEnvironment when set, otherwise "dev": the selected
\* configuration is the registry's entry of that name, and an unknown-name
\* error reports that name.
C13_NamePrecedence ==
    entry = "bin" =>
        /\ envCfg # None =>
              /\ envCfg = Lookup(context.environments[1], PrecedenceName)
              /\ PrecedenceName \in DOMAIN context.environments[1] =>
                    /\ envCfg[1] = context.environments[1][PrecedenceName]
                    /\ envCfg[1].envName = Some(PrecedenceName)
        /\ (error # None /\ error[1].message = "Unknown environment")
              => error[1].name = PrecedenceName

C13_WitnessGiven ==
    /\ entry = "bin"
    /\ context.environment = None
    /\ context.ENV_NAME = Some("dev")
    /\ context.defaultEnvironment = Some("prod")
    /\ envCfg # None
    /\ envCfg[1].envName = Some("dev")

C13_WitnessDefault ==
    /\ entry = "bin"
    /\ GivenName = None
    /\ context.defaultEnvironment = Some("prod")
    /\ envCfg # None
    /\ envCfg[1].envName = Some("prod")

C13_WitnessFallback ==
    /\ entry = "bin"
    /\ GivenName = None
    /\ context.defaultEnvironment = None
    /\ envCfg # None
    /\ envCfg[1].envName = Some("dev")

C13_Witness ==
    /\ entry = "bin"
    /\ context.environment = Some("prod")
    /\ context.ENV_NAME = Some("dev")
    /\ envCfg # None
    /\ envCfg[1].envName = Some("prod")
    /\ pc = "done"

RegistryMissingOrEmpty ==
    \/ context.environments = None
    \/ DOMAIN context.environments[1] = {}

UnknownName ==
    /\ ~RegistryMissingOrEmpty
    /\ PrecedenceName \notin DOMAIN context.environments[1]

\* C14: when the environment registry is missing or empty, or the resolved
\* name has no entry in it, the orchestrator fails with a configuration
\* error (for an unknown name the error carries that name and all the
\* registry's keys) and the graph holds no stack and no resource.
C14_ConfigurationErrors ==
    entry = "bin" =>
        /\ (RegistryMissingOrEmpty /\ pc # "bin_start") =>
              /\ pc = "error"
              /\ error # None
              /\ error[1].message = "CDK context missing"
        /\ (UnknownName /\ pc \notin {"bin_start", "bin_resolve"}) =>
              /\ pc = "error"
              /\ error # None
              /\ error[1].message = "Unknown environment"
              /\ error[1].name = PrecedenceName
              /\ error[1].available = DOMAIN context.environments[1]
        /\ ((RegistryMissingOrEmpty \/ UnknownName) /\ pc = "error") =>
              /\ stacks = << >>
              /\ resources = << >>
              /\ envCfg = None

C14_Witness ==
    /\ entry = "bin"
    /\ pc = "error"
    /\ UnknownName
    /\ error[1].name = "dev"
    /\ error[1].available = {"prod"}
    /\ stacks = << >>

C14_WitnessEmpty ==
    /\ entry = "bin"
    /\ pc = "error"
    /\ context.environments # None
    /\ DOMAIN context.environments[1] = {}
    /\ error[1].message = "CDK context missing"

AccountSupplied == Truthy(context.AWS_ACCOUNT_ID)

AccountMismatch ==
    /\ AccountSupplied
    /\ context.AWS_ACCOUNT_ID # envCfg[1].account

MismatchReported ==
    /\ error # None
    /\ error[1].message = "AWS account mismatch"

\* C15: the orchestrator fails with an account-mismatch error exactly when
\* an external account id is supplied (non-empty) and differs from the
\* selected configuration's account; the failure leaves no stack and no
\* resource and carries both ids; otherwise the run goes on to build the
\* messaging stack.
C15_AccountMismatch ==
    entry = "bin" =>
        /\ envCfg = None => ~MismatchReported
        /\ (envCfg # None /\ pc # "bin_account") =>
              /\ MismatchReported <=> AccountMismatch
              /\ AccountMismatch =>
                    /\ pc = "error"
                    /\ stacks = << >>
                    /\ resources = << >>
                    /\ sqsArgs = None
                    /\ error[1].provided = context.AWS_ACCOUNT_ID[1]
                    /\ error[1].account = Interpolate(envCfg[1].account)
              /\ ~AccountMismatch =>
                    /\ pc # "error" \/ stacks # << >>
                    /\ pc # "bin_sqs" => sqsArgs # None

C15_Witness ==
    /\ entry = "bin"
    /\ pc = "error"
    /\ MismatchReported
    /\ error[1].provided = "222222222222"
    /\ error[1].account = "111111111111"
    /\ stacks = << >>

C15_WitnessProceeds ==
    /\ OrchestratorDone
    /\ context.AWS_ACCOUNT_ID = Some("111111111111")
    /\ MessagingStackExists

ParameterIdx == {i \in DOMAIN resources : resources[i].type = "AWS::SSM::Parameter"}

ParameterPaths(stack) ==
    {resources[i].parameterName : i \in ResIdx(stack, "AWS::SSM::Parameter")}

MessagingEntries ==
    {"queues/order/url", "queues/order/arn", "queues/result/url",
     "queues/result/arn", "queues/config", "roles/webhook/arn",
     "roles/worker/arn", "roles/feedback/arn",
     "monitoring/queue-alerts/topic-arn"}

GatewayEntries ==
    {"api-gateway/rest-api-id", "api-gateway/rest-api-url",
     "api-gateway/domain-name", "api-gateway/stage-name",
     "api-gateway/source-arn"}

PathsUnder(environment, entries) ==
    {"/automation/" \o environment \o "/" \o e : e \in entries}

\* C16: the parameter paths published for an environment are exactly the 9
\* messaging entries when the gateway is inactive and those plus the 5
\* api-gateway entries when it is active, all under
\* /automation/{environment}/, and no path is published twice.
C16_ParameterPaths ==
    /\ SqsReturned =>
          /\ ParameterPaths(SqsId)
                = PathsUnder(SqsProps.environment, MessagingEntries)
          /\ Count(SqsId, "AWS::SSM::Parameter") = 9
    /\ ApiReturned =>
          /\ ParameterPaths(ApiId)
                = PathsUnder(ApiProps.environment, GatewayEntries)
          /\ Count(ApiId, "AWS::SSM::Parameter") = 5
    /\ OrchestratorDone =>
          /\ {resources[i].parameterName : i \in ParameterIdx}
                = PathsUnder(envCfg[1].envName[1],
                     IF GatewayStackExists
                     THEN MessagingEntries \cup GatewayEntries
                     ELSE MessagingEntries)
          /\ Cardinality(ParameterIdx) = IF GatewayStackExists THEN 14 ELSE 9

C16_Witness ==
    /\ OrchestratorDone
    /\ GatewayStackExists
    /\ Cardinality(ParameterIdx) = 14
    /\ envCfg[1].envName = Some("prod")

C16_WitnessMessagingOnly ==
    /\ OrchestratorDone
    /\ ~GatewayStackExists
    /\ Cardinality(ParameterIdx) = 9

AlarmIdx(stack) == ResIdx(stack, "AWS::CloudWatch::Alarm")

\* C17: whatever the configuration, the messaging builder's graph holds
\* exactly 4 alarms and the gateway builder's graph exactly 2; no alarm
\* belongs to any other stack.
C17_AlarmCounts ==
    /\ SqsReturned => Cardinality(AlarmIdx(SqsId)) = 4
    /\ ApiReturned => Cardinality(AlarmIdx(ApiId)) = 2
    /\ (pc = "done" /\ error = None) =>
          Cardinality({i \in DOMAIN resources :
                          resources[i].type = "AWS::CloudWatch::Alarm"})
             = (IF sqsArgs # None THEN 4 ELSE 0)
                  + (IF apiArgs # None THEN 2 ELSE 0)

C17_Witness ==
    /\ entry = "sqs"
    /\ SqsReturned
    /\ SqsProps.orderQueueConfig # None
    /\ SqsProps.enableEncryption = Some(FALSE)
    /\ Cardinality(AlarmIdx(SqsId)) = 4

C17_WitnessGateway ==
    /\ entry = "api"
    /\ ApiReturned
    /\ ImportBranch
    /\ ApiProps.throttling # None
    /\ Cardinality(AlarmIdx(ApiId)) = 2

C17_WitnessBoth ==
    /\ OrchestratorDone
    /\ apiArgs # None
    /\ Cardinality(AlarmIdx(SqsId)) = 4
    /\ Cardinality(AlarmIdx(ApiId)) = 2

\* the policy written in the template: "default" when the property is unset
PolicyOf(alarm) ==
    IF alarm.treatMissingData = None THEN "default"
    ELSE alarm.treatMissingData[1]

Row(alarm, threshold, periods, policy) ==
    /\ alarm.threshold = threshold
    /\ alarm.evaluationPeriods = periods
    /\ PolicyOf(alarm) = policy

MessagingAlarmRows ==
    /\ Row(Res(SqsId, "OrderQueueAgeAlarm"), 900, 2, "default")
    /\ Row(Res(SqsId, "ResultQueueAgeAlarm"), 600, 2, "default")
    /\ Row(Res(SqsId, "OrderDLQAlarm"), 1, 1, "NOT_BREACHING")
    /\ Row(Res(SqsId, "ResultDLQAlarm"), 1, 1, "default")

GatewayAlarmRows ==
    /\ Row(Res(ApiId, "Api5XXErrorAlarm"), 5, 2, "NOT_BREACHING")
    /\ Row(Res(ApiId, "ApiLatencyAlarm"), 5000, 3, "NOT_BREACHING")

\* C18 as stated: every alarm's threshold, evaluation periods and
\* missing-data policy equal the alarm table for every configuration, and
\* the intake age alarm's default policy treats missing data as breaching.
C18_AlarmTableDefaultBreaching ==
    /\ SqsReturned =>
          /\ MessagingAlarmRows
          /\ EffectiveMissingData(Res(SqsId, "OrderQueueAgeAlarm"))
                = "BREACHING"
    /\ ApiReturned => GatewayAlarmRows

\* C18 amended: every alarm's threshold, evaluation periods and missing-data
\* policy equal the alarm table for every configuration; the three alarms
\* with the default policy leave it unset, which treats missing data as
\* missing, not as breaching.
C18_AlarmTableDefaultMissing ==
    /\ SqsReturned =>
          /\ MessagingAlarmRows
          /\ \A id \in {"OrderQueueAgeAlarm", "ResultQueueAgeAlarm",
                        "ResultDLQAlarm"} :
                EffectiveMissingData(Res(SqsId, id)) = "MISSING"
          /\ EffectiveMissingData(Res(SqsId, "OrderDLQAlarm")) = "NOT_BREACHING"
    /\ ApiReturned =>
          /\ GatewayAlarmRows
          /\ \A i \in AlarmIdx(ApiId) :
                EffectiveMissingData(resources[i]) = "NOT_BREACHING"

C18_Witness ==
    /\ entry = "sqs"
    /\ SqsReturned
    /\ SqsProps.orderQueueConfig # None
    /\ SqsProps.orderQueueConfig[1].visibilityTimeoutSeconds = Some(1)
    /\ Res(SqsId, "OrderQueueAgeAlarm").threshold = 900
    /\ Res(SqsId, "OrderQueueAgeAlarm").treatMissingData = None

C18_WitnessGateway ==
    /\ entry = "api"
    /\ ApiReturned
    /\ ApiProps.throttling # None
    /\ Res(ApiId, "ApiLatencyAlarm").threshold = 5000

TopicIds(stack) ==
    {resources[i].id : i \in ResIdx(stack, "AWS::SNS::Topic")}

AllAlarmIdx ==
    {i \in DOMAIN resources : resources[i].type = "AWS::CloudWatch::Alarm"}

WiredToOwnTopic(stack) ==
    /\ Count(stack, "AWS::SNS::Topic") = 1
    /\ \A i \in AlarmIdx(stack) :
          /\ Len(resources[i].alarmActions) = 1
          /\ Len(resources[i].okActions) = 1
          /\ resources[i].alarmActions[1] \in TopicIds(stack)
          /\ resources[i].okActions[1] \in TopicIds(stack)
          /\ \A j \in DOMAIN resources :
                (resources[j].type = "AWS::SNS::Topic"
                   /\ resources[j].stack # stack)
                => resources[j].id \notin
                      {resources[i].alarmActions[1], resources[i].okActions[1]}

Wired(alarm) == alarm.alarmActions # << >> \/ alarm.okActions # << >>

BindingKept ==
    \A i \in AllAlarmIdx :
        Wired(resources[i]) =>
            /\ i \in DOMAIN resources'
            /\ resources'[i].stack = resources[i].stack
            /\ resources'[i].id = resources[i].id
            /\ resources'[i].alarmActions = resources[i].alarmActions
            /\ resources'[i].okActions = resources[i].okActions

\* C19: when a builder returns, each of its alarms has exactly one alarm
\* action and one OK action, both targeting the single topic of the alarm's
\* own stack and never a topic of the other stack; and once an alarm is
\* wired, no later step changes its actions.
C19_AlarmWiring ==
    /\ [](SqsReturned => WiredToOwnTopic(SqsId))
    /\ [](ApiReturned => WiredToOwnTopic(ApiId))
    /\ [][BindingKept]_vars

C19_Witness ==
    /\ OrchestratorDone
    /\ apiArgs # None
    /\ Cardinality(AllAlarmIdx) = 6
    /\ \A i \in AlarmIdx(SqsId) :
          resources[i].alarmActions = <<"QueueAlertTopic">>
    /\ \A i \in AlarmIdx(ApiId) :
          resources[i].okActions = <<"ApiAlertTopic">>

NamedTypes ==
    {"AWS::SQS::Queue", "AWS::IAM::Role", "AWS::CloudWatch::Alarm",
     "AWS::SNS::Topic"}

NameOf(r) ==
    IF r.type = "AWS::SQS::Queue" THEN r.queueName
    ELSE IF r.type = "AWS::IAM::Role" THEN r.roleName
    ELSE IF r.type = "AWS::CloudWatch::Alarm" THEN r.alarmName
    ELSE IF r.type = "AWS::SNS::Topic" THEN r.topicName
    ELSE r.restApiName

Purposes ==
    {"order", "order-dlq", "result", "result-dlq",
     "webhook-role", "worker-role", "feedback-role",
     "order-message-age", "result-message-age",
     "order-dlq-messages", "result-dlq-messages", "queue-alerts",
     "api-alerts", "api-5xx-errors", "api-latency",
     "telegram-bot-api", "api"}

\* the names of the form {project}-{environment}-{purpose}
PatternNames(project, environment) ==
    {project \o "-" \o environment \o "-" \o p : p \in Purposes}

NamedIdx(stack, types) ==
    {i \in DOMAIN resources :
        resources[i].stack = stack /\ resources[i].type \in types}

FollowPattern(stack, types, project, environment) ==
    \A i \in NamedIdx(stack, types) :
        NameOf(resources[i]) \in PatternNames(project, environment)

\* C20 as stated: every named resource of the messaging and gateway
\* builders (queues, roles, alarms, topics, REST API) is named
\* {project}-{environment}-{purpose} from the builder's input.
C20_AllNamesFollowPattern ==
    /\ SqsReturned =>
          FollowPattern(SqsId, NamedTypes,
                        SqsProps.projectName, SqsProps.environment)
    /\ ApiReturned =>
          FollowPattern(ApiId, NamedTypes \cup {"AWS::ApiGateway::RestApi"},
                        ApiProps.projectName, ApiProps.environment)

\* C20 amended: every queue, role, alarm and topic of the two builders is
\* named {project}-{environment}-{purpose} from the builder's input, and the
\* REST API is named {project}-telegram-bot-api-{environment}.
C20_NamesFollowPatternExceptRestApi ==
    /\ SqsReturned =>
          /\ FollowPattern(SqsId, NamedTypes,
                           SqsProps.projectName, SqsProps.environment)
          /\ Cardinality(NamedIdx(SqsId, NamedTypes)) = 12
    /\ ApiReturned =>
          /\ FollowPattern(ApiId, NamedTypes,
                           ApiProps.projectName, ApiProps.environment)
          /\ Cardinality(NamedIdx(ApiId, NamedTypes)) = 3
          /\ Res(ApiId, "RestApi").restApiName
                = ApiProps.projectName \o "-telegram-bot-api-"
                     \o ApiProps.environment
          /\ Res(ApiId, "RestApi").restApiName
                \notin PatternNames(ApiProps.projectName, ApiProps.environment)

C20_Witness ==
    /\ entry = "api"
    /\ ApiReturned
    /\ ApiProps.environment = "prod"
    /\ Res(ApiId, "RestApi").restApiName = "tg-assistant-telegram-bot-api-prod"
    /\ Res(ApiId, "ApiAlertTopic").topicName = "tg-assistant-prod-api-alerts"

C20_WitnessMessaging ==
    /\ entry = "sqs"
    /\ SqsReturned
    /\ SqsProps.environment = "prod"
    /\ Res(SqsId, "OrderQueue").queueName = "tg-assistant-prod-order"
    /\ Res(SqsId, "WorkerLambdaRole").roleName = "tg-assistant-prod-worker-role"

RunEnded == pc \in {"done", "error"}

C21_WitnessError ==
    /\ run = 2
    /\ entry = "bin"
    /\ pc = "error"
    /\ previous[1].ended = "error"
    /\ error[1].message = "AWS account mismatch"

TypeIdx(type) == {i \in DOMAIN resources : resources[i].type = type}

CommonGatewayGraph ==
    /\ Count(ApiId, "AWS::ApiGateway::RestApi") = 1
    /\ Res(ApiId, "RestApi").endpointTypes = <<"REGIONAL">>
    /\ Res(ApiId, "RestApi").disableExecuteApiEndpoint
    /\ Res(ApiId, "RestApi").deployOptions.loggingLevel = "INFO"
    /\ Count(ApiId, "AWS::ApiGateway::Resource") = 1
    /\ Count(ApiId, "AWS::ApiGateway::Method") = 1
    /\ \A m \in ResIdx(ApiId, "AWS::ApiGateway::Method") :
          /\ resources[m].httpMethod = "POST"
          /\ \E p \in ResIdx(ApiId, "AWS::ApiGateway::Resource") :
                resources[m].resource = resources[p].id
          /\ resources[m].integration.proxy
          /\ resources[m].integration.imported
          /\ resources[m].integration.functionName
                = ApiProps.lambdaFunctionName
    /\ TypeIdx("AWS::Lambda::Function") = {}
    /\ Count(ApiId, "AWS::ApiGateway::BasePathMapping") = 1
    /\ Res(ApiId, "BasePathMapping").restApi = "RestApi"
    /\ Res(ApiId, "BasePathMapping").stage
          = Res(ApiId, "RestApi").deployOptions.stageName
    /\ Res(ApiId, "BasePathMapping").domainName.domainName
          = ApiProps.domainName
    /\ Count(ApiId, "AWS::SNS::Topic") = 1
    /\ Count(ApiId, "AWS::CloudWatch::Alarm") = 2
    /\ Count(ApiId, "AWS::SSM::Parameter") = 5

\* C22: whichever domain-binding branch is taken, the gateway graph has
\* exactly one regional REST API with the execute-api endpoint disabled and
\* logging on, one resource path with one POST method proxying to a function
\* referenced by name (no function resource), one path mapping binding the
\* domain and the stage to the API, one topic, two alarms and five
\* parameters; the branches differ only in the domain and DNS resources.
C22_BranchesConverge ==
    ApiReturned =>
        /\ CommonGatewayGraph
        /\ Cardinality(ResIdx(ApiId, "AWS::ApiGateway::DomainName"))
              = (IF ImportBranch THEN 0 ELSE 1)
        /\ Cardinality({i \in DOMAIN resources : resources[i].stack = ApiId})
              = 12 + Count(ApiId, "AWS::ApiGateway::DomainName")
                   + Count(ApiId, "AWS::Route53::RecordSet")

C22_Witness ==
    /\ entry = "api"
    /\ ApiReturned
    /\ ImportBranch
    /\ CommonGatewayGraph
    /\ Res(ApiId, "BasePathMapping").domainName.imported

C22_WitnessCreate ==
    /\ entry = "api"
    /\ ApiReturned
    /\ ~ImportBranch
    /\ CommonGatewayGraph
    /\ ~Res(ApiId, "BasePathMapping").domainName.imported

RateOverride ==
    IF ApiProps.throttling = None THEN None
    ELSE ApiProps.throttling[1].rateLimit

BurstOverride ==
    IF ApiProps.throttling = None THEN None
    ELSE ApiProps.throttling[1].burstLimit

\* C23: the stage's throttle rate is the rate override when supplied and 10
\* otherwise, its burst the burst override when supplied and 25 otherwise,
\* each resolved without regard to the other.
C23_ThrottleDefaults ==
    ApiReturned =>
        LET options == Res(ApiId, "RestApi").deployOptions
        IN /\ options.throttlingRateLimit
                 = (IF RateOverride = None THEN 10 ELSE RateOverride[1])
           /\ options.throttlingBurstLimit
                 = (IF BurstOverride = None THEN 25 ELSE BurstOverride[1])

C23_Witness ==
    /\ entry = "api"
    /\ ApiReturned
    /\ RateOverride = Some(1)
    /\ BurstOverride = None
    /\ Res(ApiId, "RestApi").deployOptions.throttlingRateLimit = 1
    /\ Res(ApiId, "RestApi").deployOptions.throttlingBurstLimit = 25

C23_WitnessDefaults ==
    /\ ApiReturned
    /\ ApiProps.throttling = None
    /\ Res(ApiId, "RestApi").deployOptions.throttlingRateLimit = 10
    /\ Res(ApiId, "RestApi").deployOptions.throttlingBurstLimit = 25

C23_WitnessBurstOnly ==
    /\ ApiReturned
    /\ RateOverride = None
    /\ BurstOverride = Some(0)
    /\ Res(ApiId, "RestApi").deployOptions.throttlingRateLimit = 10
    /\ Res(ApiId, "RestApi").deployOptions.throttlingBurstLimit = 0

SuppliedVisibility(cfg) ==
    IF cfg = None THEN None ELSE cfg[1].visibilityTimeoutSeconds

ExpectedVisibility(cfg, default) ==
    IF SuppliedVisibility(cfg) = None THEN default
    ELSE SuppliedVisibility(cfg)[1]

QueueTimes(queue, visibility, retentionDays, wait) ==
    /\ queue.visibilityTimeout # None
    /\ toSeconds(queue.visibilityTimeout[1]) = visibility
    /\ toSeconds(queue.retentionPeriod) = retentionDays * 86400
    /\ queue.receiveMessageWaitTime # None
    /\ toSeconds(queue.receiveMessageWaitTime[1]) = wait

\* C24: for every combination of props, the intake queue has its visibility
\* override else 300s, 14 days retention and 6s long-poll wait, and the
\* result queue its visibility override else 180s, 7 days retention and 6s
\* wait; no prop changes retention or wait.
C24_QueueSettings ==
    SqsReturned =>
        /\ QueueTimes(Res(SqsId, "OrderQueue"),
                      ExpectedVisibility(SqsProps.orderQueueConfig, 300), 14, 6)
        /\ QueueTimes(Res(SqsId, "ResultQueue"),
                      ExpectedVisibility(SqsProps.resultQueueConfig, 180), 7, 6)

C24_Witness ==
    /\ entry = "sqs"
    /\ SqsReturned
    /\ SuppliedVisibility(SqsProps.orderQueueConfig) = Some(1)
    /\ SuppliedVisibility(SqsProps.resultQueueConfig) = None
    /\ SqsProps.enableEncryption = Some(FALSE)
    /\ toSeconds(Res(SqsId, "OrderQueue").visibilityTimeout[1]) = 1
    /\ toSeconds(Res(SqsId, "ResultQueue").visibilityTimeout[1]) = 180

C24_WitnessDefaults ==
    /\ SqsReturned
    /\ SqsProps.orderQueueConfig = None
    /\ toSeconds(Res(SqsId, "OrderQueue").visibilityTimeout[1]) = 300
    /\ toSeconds(Res(SqsId, "OrderQueue").retentionPeriod) = 1209600

ConstructIds ==
    {"QueueEncryptionKey", "OrderDLQ", "ResultDLQ", "OrderQueue",
     "ResultQueue", "WebhookLambdaRole", "WorkerLambdaRole",
     "FeedbackLambdaRole", "QueueAlertTopic", "RestApi", "CustomDomain",
     "ApiAlertTopic", "qlibin-assistant-listener"}

\* the constructs whose attribute tokens occur among `tokens`
ByToken(tokens) ==
    {id \in ConstructIds :
        {id \o ".Arn", id \o ".Ref", id \o ".Url"} \cap tokens # {}}

OptSet(v) == IF v = None THEN {} ELSE {v[1]}

Range(seq) == {seq[k] : k \in DOMAIN seq}

StatementResources(role) ==
    UNION {UNION {p.statements[k].resources : k \in DOMAIN p.statements} :
              p \in Range(role.inlinePolicies)}

DomainRef(handle) == IF handle.imported THEN {} ELSE {"CustomDomain"}

\* the constructs a resource refers to from the moment it is created
CreationRefs(r) ==
    CASE r.type = "AWS::SQS::Queue" ->
            OptSet(r.encryptionMasterKey)
               \cup (IF r.deadLetterQueue = None THEN {}
                     ELSE {r.deadLetterQueue[1].queue})
      [] r.type = "AWS::IAM::Role" -> ByToken(StatementResources(r))
      [] r.type = "AWS::CloudWatch::Alarm" -> {r.metric.of}
      [] r.type = "AWS::SNS::Topic" -> OptSet(r.masterKey)
      [] r.type = "AWS::SSM::Parameter" -> ByToken({r.stringValue})
      [] r.type = "AWS::ApiGateway::Resource" -> {r.parent}
      [] r.type = "AWS::ApiGateway::Method" -> {r.resource}
      [] r.type = "AWS::ApiGateway::BasePathMapping" ->
            {r.restApi} \cup DomainRef(r.domainName)
      [] r.type = "AWS::Route53::RecordSet" -> DomainRef(r.target)
      [] OTHER -> {}

\* the constructs a resource refers to through actions attached later
AttachedRefs(r) ==
    IF r.type = "AWS::CloudWatch::Alarm"
    THEN Range(r.alarmActions) \cup Range(r.okActions)
    ELSE {}

ExistsBefore(i, id) ==
    \E j \in 1 .. (i - 1) :
        resources[j].stack = resources[i].stack /\ resources[j].id = id

ExistsNow(i, id) ==
    \E j \in DOMAIN resources :
        resources[j].stack = resources[i].stack /\ resources[j].id = id

\* C25: at every step of construction each reference names an entity that
\* already exists: what a resource refers to when created (key, dead-letter
\* queue, queues and key in role statements, published queue, role or topic,
\* the API and the created domain) was created before it, an alarm's actions
\* name a topic that exists when they are attached, and the path mapping and
\* the DNS record hold the domain handle the builder has set.
C25_ReferencesExist ==
    \A i \in DOMAIN resources :
        /\ \A id \in CreationRefs(resources[i]) : ExistsBefore(i, id)
        /\ \A id \in AttachedRefs(resources[i]) : ExistsNow(i, id)
        /\ resources[i].type = "AWS::ApiGateway::BasePathMapping"
              => (customDomain # None
                    /\ resources[i].domainName = customDomain[1])
        /\ resources[i].type = "AWS::Route53::RecordSet"
              => (customDomain # None /\ resources[i].target = customDomain[1])

C25_Witness ==
    /\ OrchestratorDone
    /\ apiArgs # None
    /\ CreationRefs(Res(SqsId, "WorkerLambdaRole"))
          = {"OrderQueue", "ResultQueue", "QueueEncryptionKey"}
    /\ CreationRefs(Res(SqsId, "OrderQueue"))
          = {"QueueEncryptionKey", "OrderDLQ"}
    /\ CreationRefs(Res(SqsId, "QueueAlertTopicArn")) = {"QueueAlertTopic"}
    /\ AttachedRefs(Res(SqsId, "OrderDLQAlarm")) = {"QueueAlertTopic"}
    /\ CreationRefs(Res(ApiId, "BasePathMapping")) = {"RestApi"}

C25_WitnessRecord ==
    /\ entry = "api"
    /\ ApiReturned
    /\ Count(ApiId, "AWS::Route53::RecordSet") = 1
    /\ CreationRefs(Res(ApiId, "ApiAliasRecord")) = {"CustomDomain"}
    /\ CreationRefs(Res(ApiId, "BasePathMapping")) = {"RestApi", "CustomDomain"}

\* JSON text of one queue's applied settings
AppliedJson(queue) ==
    "{\"visibilityTimeout\":"
        \o ToString(toSeconds(queue.visibilityTimeout[1]))
        \o ",\"maxReceiveCount\":"
        \o ToString(queue.deadLetterQueue[1].maxReceiveCount) \o "}"

\* C26: for every combination of queue overrides, the queues/config
\* parameter holds exactly the visibility timeouts and max receive counts
\* applied to the intake and result queues of the same graph.
C26_SnapshotMatchesQueues ==
    SqsReturned =>
        Res(SqsId, "QueueConfiguration").stringValue
            = "{\"orderQueue\":" \o AppliedJson(Res(SqsId, "OrderQueue"))
                 \o ",\"resultQueue\":"
                 \o AppliedJson(Res(SqsId, "ResultQueue")) \o "}"

C26_Witness ==
    /\ entry = "sqs"
    /\ SqsReturned
    /\ SuppliedVisibility(SqsProps.orderQueueConfig) = Some(1)
    /\ SuppliedMaxReceive(SqsProps.orderQueueConfig) = None
    /\ SuppliedVisibility(SqsProps.resultQueueConfig) = None
    /\ SuppliedMaxReceive(SqsProps.resultQueueConfig) = Some(1)
    /\ Res(SqsId, "QueueConfiguration").stringValue
          = "{\"orderQueue\":{\"visibilityTimeout\":1,\"maxReceiveCount\":3},\"resultQueue\":{\"visibilityTimeout\":180,\"maxReceiveCount\":1}}"

\* C27: the orchestrator's checks run in a fixed order and raise at most one
\* error: a missing or empty registry first, then an unknown environment
\* name, then an account mismatch; the account comparison is not evaluated
\* when the registry is missing or the name is unknown, and a run ends
\* either in an error with an empty graph or in a completed graph.
C27_CheckOrder ==
    entry = "bin" =>
        /\ (RegistryMissingOrEmpty /\ pc # "bin_start") =>
              (pc = "error" /\ error[1].message = "CDK context missing")
        /\ (UnknownName /\ pc \notin {"bin_start", "bin_resolve"}) =>
              (pc = "error" /\ error[1].message = "Unknown environment")
        /\ MismatchReported => (~RegistryMissingOrEmpty /\ ~UnknownName)
        /\ pc = "error" => (stacks = << >> /\ resources = << >>)
        /\ pc = "done" => (error = None /\ MessagingStackExists)

\* the order holds for names the registry object does not inherit
C27_CheckOrderOwnNames ==
    (entry = "bin" /\ PrecedenceName \notin InheritedNames) =>
        /\ (RegistryMissingOrEmpty /\ pc # "bin_start") =>
              (pc = "error" /\ error[1].message = "CDK context missing")
        /\ (UnknownName /\ pc \notin {"bin_start", "bin_resolve"}) =>
              (pc = "error" /\ error[1].message = "Unknown environment")
        /\ MismatchReported => (~RegistryMissingOrEmpty /\ ~UnknownName)
        /\ pc = "error" => (stacks = << >> /\ resources = << >>)
        /\ pc = "done" => (error = None /\ MessagingStackExists)

C27_InheritedNameMismatch ==
    /\ entry = "bin"
    /\ UnknownName
    /\ MismatchReported
    /\ error[1].account = "undefined"

\* C28: in every gateway graph, whatever the alias target, alias zone and
\* create-record flag, a DNS alias record exists only together with a domain
\* resource created in the same graph, never with an imported domain, and
\* its alias target is the created domain.
C28_RecordOnlyWithCreatedDomain ==
    (apiArgs # None /\ Count(ApiId, "AWS::Route53::RecordSet") > 0) =>
        /\ Count(ApiId, "AWS::Route53::RecordSet") = 1
        /\ Count(ApiId, "AWS::ApiGateway::DomainName") = 1
        /\ ~ImportBranch
        /\ customDomain # None
        /\ ~customDomain[1].imported
        /\ Res(ApiId, "ApiAliasRecord").target = CreatedDomain
        /\ Res(ApiId, "ApiAliasRecord").target.domainNameAliasTarget
              = "CustomDomain.RegionalDomainName"
        /\ Res(ApiId, "ApiAliasRecord").recordName
              = Res(ApiId, "CustomDomain").domainName

C28_Witness ==
    /\ entry = "api"
    /\ ApiReturned
    /\ Count(ApiId, "AWS::Route53::RecordSet") = 1
    /\ ApiProps.existingDomainRegionalHostedZoneId # None
    /\ ApiProps.existingDomainRegionalDomainName = None
    /\ Count(ApiId, "AWS::ApiGateway::DomainName") = 1

C28_WitnessImportNoRecord ==
    /\ entry = "api"
    /\ ApiReturned
    /\ ImportBranch
    /\ ApiProps.createDnsRecord = Some(TRUE)
    /\ Count(ApiId, "AWS::Route53::RecordSet") = 0

EraseKeyRef(r) ==
    IF r.type = "AWS::SQS::Queue" THEN [r EXCEPT !.encryptionMasterKey = None]
    ELSE r

EraseKeyRefs(outcome) ==
    [outcome EXCEPT
        !.resources = [i \in DOMAIN outcome.resources |->
                          EraseKeyRef(outcome.resources[i])]]

KeyStillInUse ==
    /\ Count(SqsId, "AWS::KMS::Key") = 1
    /\ Res(SqsId, "QueueEncryptionKey").enableKeyRotation
    /\ Res(SqsId, "QueueAlertTopic").masterKey = Some("QueueEncryptionKey")
    /\ \A i \in ResIdx(SqsId, "AWS::IAM::Role") :
          keyArn("QueueEncryptionKey")
             \in StatementResources(resources[i])

\* C29: the graph built with enableCostOptimization and watchTowerTopicArn
\* set to any value equals the graph built without them, and the graph
\* built with any enableEncryption differs from the one built without it in
\* nothing but the four queues' key reference: the key is still created with
\* rotation, the topic is still encrypted with it and the three roles keep
\* their key grants.
C29_OptionalPropsFrame ==
    /\ (run = 2 /\ RunEnded) => Outcome = previous[1]
    /\ (run = 3 /\ RunEnded) =>
          EraseKeyRefs(Outcome) = EraseKeyRefs(previous[1])
    /\ SqsReturned =>
          /\ KeyStillInUse
          /\ Count(SqsId, "AWS::SQS::Queue") = 4
          /\ \A i \in ResIdx(SqsId, "AWS::SQS::Queue") :
                resources[i].encryptionMasterKey
                   = (IF SqsProps.enableEncryption = Some(FALSE) THEN None
                      ELSE Some("QueueEncryptionKey"))

C29_Witness ==
    /\ run = 3
    /\ SqsReturned
    /\ previous # None
    /\ Len(previous[1].resources) = Len(resources)
    /\ previous[1].resources # resources
    /\ KeyStillInUse

C29_WitnessReserved ==
    /\ run = 1
    /\ SqsReturned
    /\ SqsProps.enableCostOptimization = Some(TRUE)
    /\ SqsProps.watchTowerTopicArn # None
    /\ SqsProps.enableEncryption = Some(FALSE)
    /\ KeyStillInUse


\* C30: every gateway graph the orchestrator builds contains no DNS alias
\* record (it always passes createDnsRecord = false), and the API stage name,
\* the base path of the mapping and the value of the stage-name parameter are
\* all the environment name of the resolved configuration.
C30_OrchestratorGateway ==
    (entry = "bin" /\ apiArgs # None) =>
        /\ ApiProps.createDnsRecord = Some(FALSE)
        /\ envCfg # None /\ envCfg[1].envName # None
        /\ Count(ApiId, "AWS::Route53::RecordSet") = 0
        /\ \A i \in DOMAIN resources :
              resources[i].stack = ApiId =>
                /\ resources[i].type = "AWS::ApiGateway::RestApi" =>
                      resources[i].deployOptions.stageName
                          = envCfg[1].envName[1]
                /\ resources[i].type = "AWS::ApiGateway::BasePathMapping" =>
                      /\ resources[i].basePath = envCfg[1].envName[1]
                      /\ resources[i].stage = envCfg[1].envName[1]
                /\ (/\ resources[i].type = "AWS::SSM::Parameter"
                    /\ resources[i].id = "StageName") =>
                      resources[i].stringValue = envCfg[1].envName[1]
        /\ pc = "done" =>
              /\ Count(ApiId, "AWS::ApiGateway::RestApi") = 1
              /\ Count(ApiId, "AWS::ApiGateway::BasePathMapping") = 1
              /\ \E i \in ResIdx(ApiId, "AWS::SSM::Parameter") :
                    resources[i].id = "StageName"

\* a finished orchestrator run whose gateway created its own domain, with an
\* alias zone configured, and still holds no record
C30_Witness ==
    /\ OrchestratorDone
    /\ apiArgs # None
    /\ Count(ApiId, "AWS::ApiGateway::DomainName") = 1
    /\ Count(ApiId, "AWS::ApiGateway::BasePathMapping") = 1
    /\ Count(ApiId, "AWS::Route53::RecordSet") = 0
    /\ Res(ApiId, "RestApi").deployOptions.stageName = "prod"

====
